---------------------------- MODULE Spec2Model ----------------------------
(***************************************************************************)
(* EchoPi: the persistent duplex audio stream (src/echopi/io/audio.py),    *)
(* the process-wide stream singletons (io/audio.py and io/audio_safe.py)   *)
(* and their use by measure_distance / measure_latency.                    *)
(*                                                                         *)
(* Spec        caller threads and the driver callback on one               *)
(*             PersistentAudioStream instance of io/audio.py.              *)
(* SpecGlobal  the module-level singletons of io/audio.py and              *)
(*             io/audio_safe.py driven by measure_distance,                *)
(*             measure_latency, close_global_stream and process exit.      *)
(*                                                                         *)
(* Time is counted in ticks of 5 ms (the cooldown of play_and_record) and   *)
(* kept relative to time.monotonic(): a stored time x is held as the       *)
(* number of ticks x - now still to elapse (0 once it has passed), and     *)
(* Tick counts every pending time down by one.                             *)
(* Sample values: play_signal of length L is <<1, .., L>>, silence is 0,   *)
(* and the input block of a callback invocation carries, frame by frame,   *)
(* the value written to the output block in the same frame (frame tags),   *)
(* so a record buffer shows which played frame each captured frame         *)
(* belongs to.                                                             *)
(***************************************************************************)
EXTENDS Integers, Sequences, FiniteSets, TLC

\* ------------------------------------------------------------- bounds
MaxSigLen == 2
MaxExtra == 1
\* play_and_record calls per behaviour: with two caller threads (Spec) and
\* with one (SpecSolo)
MaxCalls == 2
MaxSoloCalls == 3

\* -------------------------------------------------- program constants
\* cfg.frames_per_buffer: the block size of one callback invocation.
FramesPerBuffer == 2
\* cfg.channels_play (config.py default).
ChannelsPlay == 1
\* cooldown_s = 0.005 s, in ticks.
CooldownTicks == 1
\* time.sleep(0.02) before the retry, in ticks.
RetryPauseTicks == 4
\* priming blocks on first use after (re)opening, and thereafter.
FirstPrimingBlocks == 3
LaterPrimingBlocks == 1
\* _distance_smoothing_buffer = deque(maxlen=3)
DefaultMaxlen == 3

Callers == {"t1", "t2"}
NoThread == "none"
NoJob == 0
JobIds == 1 .. (Cardinality(Callers) + 1)

Min(a, b) == IF a < b THEN a ELSE b

VARIABLES
    \* PersistentAudioStream fields (io/audio.py)
    stream,             \* TRUE iff self.stream is not None
    next_allowed_time,  \* self._next_allowed_time - or 0 once passed
    jobs_run,           \* self._jobs_run
    job,                \* self._job: a job id, or NoJob
    job_lock,           \* holder of self._job_lock, or NoThread
    heap,               \* the job dicts, by id
    \* caller threads inside play_and_record
    caller,
    \* the driver callback thread
    cb,
    \* the number of play_and_record calls that may still be started
    calls,
    \* history: jobs armed since the stream was last (re)opened, and
    \* play_and_record calls that returned a recording since then
    armed_since_open,
    returned_since_open,
    \* module-level singletons (SpecGlobal)
    g,
    \* module-level state of utils/distance.py and the outcome of the last
    \* call into it (SpecDistance)
    est,
    \* the last application of a dsp/correlation.py function (SpecDsp)
    dsp,
    \* the measure_latency call in progress and the outcome of the last call
    \* into utils/latency.py (SpecLatency, SpecPick, SpecAggregate)
    lat

vars == <<stream, next_allowed_time, jobs_run, job, job_lock, heap, caller,
          cb, calls, armed_since_open, returned_since_open, g, est, dsp, lat>>

streamVars == <<stream, next_allowed_time, jobs_run, job, job_lock, heap,
                caller, cb, calls, armed_since_open,
                returned_since_open>>

\* ------------------------------------------------------ numpy helpers
Zeros(n) == [i \in 1 .. n |-> 0]

\* The caller's signal: distinct non-zero samples.
Signal(len) == [i \in 1 .. len |-> i]

\* Python s[a:b] for 0 <= a (0-based, half open, clipped to len(s)).
Slice(s, a, b) == SubSeq(s, a + 1, Min(b, Len(s)))

\* ------------------------------------------------------------- jobs
NullJob == [play |-> <<>>, rec |-> <<>>, idx |-> 0, total |-> 0,
            done |-> FALSE, had_xrun |-> FALSE, blocks |-> 0, ord |-> 0]

\* Job ids referenced by the slot, a caller's local or the callback's local.
Live(slot, cl, c) == ({slot, c.job} \cup {cl[t].job : t \in Callers}) \ {NoJob}

\* Unreferenced job dicts are garbage.
Collect(h, slot, cl, c) ==
    [j \in JobIds |-> IF j \in Live(slot, cl, c) THEN h[j] ELSE NullJob]

FreshId == CHOOSE j \in JobIds : j \notin Live(job, caller, cb)

IdleCaller == [pc |-> "idle", len |-> 0, extra |-> 0, priming_frames |-> 0,
               total_frames |-> 0, attempt |-> 0, job |-> NoJob, wake |-> 0,
               result |-> "none", recorded |-> <<>>,
               \* history of the call: jobs armed, xrun seen on the first
               \* job, cooldown still to elapse of the deadline found at
               \* entry (paced: there was one), and whether no call had
               \* returned since (re)opening when priming was chosen
               armed |-> 0, first_xrun |-> FALSE, entry_deadline |-> 0,
               paced |-> FALSE, first_use |-> FALSE]

IdleCb == [pc |-> "idle", job |-> NoJob, raised |-> FALSE]

\* ------------------------------------------- module-level singletons
\* AudioDeviceConfig: its seven fields, each at its default (0) or at
\* another value (1); the configurations used differ from the default in at
\* most one field.
Fields == {"play_device", "rec_device", "sample_rate", "channels_play",
           "channels_rec", "frames_per_buffer", "latency"}

DefaultCfg == [f \in Fields |-> 0]

Cfgs == {DefaultCfg} \cup {[DefaultCfg EXCEPT ![f] = 1] : f \in Fields}

NoSession == [id |-> 0]
NoSig == <<>>
NoCfg == [none |-> TRUE]
NoLast == [op |-> "none", req |-> NoCfg, ret |-> 0, on |-> NoCfg]

\* pc, req: audio.get_global_stream between closing the old session and
\*   opening the new one, and the configuration it was called with;
\* audio_stream, audio_sig: _global_stream, _global_signature of io/audio.py;
\* safe_stream: _global_stream of io/audio_safe.py;
\* hw: the hardware sessions (sd.Stream) open in the process;
\* opened: sessions opened so far; exited: the process has exited;
\* last: the last operation, the configuration it asked for, the session
\*   it got and the configuration of the session it played on.
GInit == [pc |-> "idle", op |-> "none", req |-> NoCfg,
          audio_stream |-> NoSession, audio_sig |-> NoSig,
          safe_stream |-> NoSession, hw |-> {}, opened |-> 0,
          exited |-> FALSE, last |-> NoLast]

\* utils/distance.py: _distance_smoothing_buffer = deque(maxlen=3) (its
\* items, oldest first, and its maxlen), the keys of _chirp_cache, and
\* the outcome of the last call of a function of the module.
NoOutcome == [kind |-> "none"]

EstInit == [buffer |-> <<>>, maxlen |-> DefaultMaxlen, cache |-> {},
            out |-> NoOutcome, hist |-> <<>>]

\* No dsp/correlation.py function applied yet.
NoDsp == [op |-> "none"]

\* utils/latency.py: no measure_latency call in progress.  repeats, discard,
\* i and latencies are the call's locals; log lists the play_and_record
\* calls it has made (the program keeps no such list); out is the outcome of
\* the last call of a function of the module.
LatInit == [pc |-> "idle", args |-> NoCfg, repeats |-> 0, discard |-> 0,
            i |-> 0, latencies |-> <<>>, log |-> <<>>, out |-> NoOutcome]

Init ==
    /\ stream = TRUE
    /\ next_allowed_time = 0
    /\ jobs_run = 0
    /\ job = NoJob
    /\ job_lock = NoThread
    /\ heap = [j \in JobIds |-> NullJob]
    /\ caller = [t \in Callers |-> IdleCaller]
    /\ cb = IdleCb
    /\ calls = MaxCalls
    /\ armed_since_open = 0
    /\ returned_since_open = 0
    /\ g = GInit
    /\ est = EstInit
    /\ dsp = NoDsp
    /\ lat = LatInit

\* ------------------------------------------- PersistentAudioStream
\* priming_blocks = 3 if self._jobs_run == 0 else 1
PrimingBlocks(runs) ==
    IF runs = 0 THEN FirstPrimingBlocks ELSE LaterPrimingBlocks

\* play_buf = concatenate([zeros(priming_frames), play_signal, zeros(extra_frames)])
PlayBuf(priming, len, extra) == Zeros(priming) \o Signal(len) \o Zeros(extra)

\* (mutant) the priming frames are not stripped.
RecordedUntrimmed(rec, priming, total) == Slice(rec, 0, total)

\* recorded = recorded_full[priming_frames : priming_frames + total_frames]
Recorded(rec, priming, total) == Slice(rec, priming, priming + total)

\* (mutant) no pacing sleep.
PaceNoSleep(remaining) == 0

\* if now < self._next_allowed_time: time.sleep(self._next_allowed_time - now)
\* -- the ticks to sleep, given the cooldown still to elapse.
PaceSleep(remaining) == IF remaining > 0 THEN remaining ELSE 0

\* (mutant) the busy check is missing.
SlotBusyNever(slot) == FALSE

\* if self._job is not None: raise RuntimeError("Audio stream is busy")
SlotBusy(slot) == slot # NoJob

\* (mutant) the timeout path leaves the slot as it is.
TimeoutSlotKept(slot) == slot

\* on timeout: self._job = None
TimeoutSlot(slot) == NoJob

\* (mutant) the first attempt is always retried.
ReturnsOnlyRetry(had_xrun, attempt) == attempt = 1

\* if (not had_xrun) or attempt == 1: ... return recorded
Returns(had_xrun, attempt) == (~had_xrun) \/ attempt = 1

\* (mutant) the wait on the completion event has no timeout.
WaitNeverExpires(done) == FALSE

\* if not done.wait(timeout=timeout_s): the bounded wait gives up (returns
\* False) only while the event is not set.
WaitExpires(done) == ~done

\* The job dict of one attempt: the call's play buffer, a fresh record
\* buffer, cursor 0, a fresh completion event and xrun flag.
NewJob(c, ord) ==
    [play |-> PlayBuf(c.priming_frames, c.len, c.extra),
     rec |-> Zeros(c.priming_frames + c.len + c.extra),
     idx |-> 0,
     total |-> c.priming_frames + c.len + c.extra,
     done |-> FALSE,
     had_xrun |-> FALSE,
     blocks |-> c.priming_frames \div FramesPerBuffer,
     ord |-> ord]

\* _create_stream(): a fresh hardware stream, no job run on it yet.
CreateStream ==
    /\ stream' = TRUE
    /\ jobs_run' = 0
    /\ armed_since_open' = 0
    /\ returned_since_open' = 0

\* A call ends (return or raise): its locals die with it.
EndCall(c, res, recd) ==
    [IdleCaller EXCEPT !.result = res, !.recorded = recd]

\* play_and_record, lines 113-118: reopen a closed stream, then reject a
\* negative extra_record_seconds.  extra is int(extra_record_seconds *
\* sample_rate), with -1 standing for a negative argument.
Call(t, len, extra) ==
    /\ caller[t].pc = "idle"
    /\ calls > 0
    /\ calls' = calls - 1
    /\ IF stream THEN UNCHANGED <<stream, jobs_run, armed_since_open,
                                  returned_since_open>>
                 ELSE CreateStream
    /\ LET c == [IdleCaller EXCEPT !.len = len, !.extra = extra,
                                   !.entry_deadline = next_allowed_time,
                                   !.paced = (next_allowed_time > 0)]
       IN caller' = [caller EXCEPT ![t] =
              IF extra < 0 THEN EndCall(c, "ValueError", <<>>)
                           ELSE [c EXCEPT !.pc = "pace"]]
    /\ UNCHANGED <<next_allowed_time, job, job_lock, heap, cb, g, est, dsp, lat>>

\* lines 121-123: now = time.monotonic(); if now < self._next_allowed_time:
\* time.sleep(self._next_allowed_time - now).
Pace(t) ==
    /\ caller[t].pc = "pace"
    /\ caller' = [caller EXCEPT ![t].pc = "sleep",
                                ![t].wake = PaceSleep(next_allowed_time)]
    /\ UNCHANGED <<stream, next_allowed_time, jobs_run, job, job_lock, heap,
                   cb, calls, armed_since_open, returned_since_open, g, est, dsp, lat>>

\* lines 125-145, once the sleep is over: channel check, priming, play_buf.
Prepare(t) ==
    /\ caller[t].pc = "sleep"
    /\ caller[t].wake = 0
    /\ LET c == caller[t]
       IN caller' = [caller EXCEPT ![t] =
          IF ChannelsPlay < 1
          THEN EndCall(c, "ValueError", <<>>)
          ELSE [c EXCEPT !.pc = "arm",
                         !.attempt = 0,
                         !.total_frames = c.len + c.extra,
                         !.priming_frames =
                             FramesPerBuffer * PrimingBlocks(jobs_run),
                         !.first_use = (returned_since_open = 0)]]
    /\ UNCHANGED <<stream, next_allowed_time, jobs_run, job, job_lock, heap,
                   cb, calls, armed_since_open, returned_since_open, g, est, dsp, lat>>

\* line 161: with self._job_lock (acquire).
ArmLock(t) ==
    /\ caller[t].pc = "arm"
    /\ job_lock = NoThread
    /\ job_lock' = t
    /\ caller' = [caller EXCEPT ![t].pc = "arm_cs"]
    /\ UNCHANGED <<stream, next_allowed_time, jobs_run, job, heap, cb, calls, armed_since_open, returned_since_open, g, est, dsp, lat>>

\* lines 149-164: the attempt's job dict, then under the lock: busy if the
\* slot is occupied, else the job goes into the slot.
ArmBody(t) ==
    /\ caller[t].pc = "arm_cs"
    /\ job_lock = t
    /\ job_lock' = NoThread
    /\ IF SlotBusy(job)
       THEN /\ caller' = [caller EXCEPT ![t] = EndCall(@, "Busy", <<>>)]
            /\ heap' = Collect(heap, job, caller', cb)
            /\ UNCHANGED <<job, armed_since_open>>
       ELSE LET id == FreshId
            IN /\ job' = id
               /\ caller' = [caller EXCEPT ![t].pc = "wait",
                                           ![t].job = id,
                                           ![t].armed = @ + 1]
               /\ armed_since_open' = armed_since_open + 1
               /\ heap' = [heap EXCEPT
                      ![id] = NewJob(caller[t], armed_since_open + 1)]
    /\ UNCHANGED <<stream, next_allowed_time, jobs_run, cb, calls,
                   returned_since_open, g, est, dsp, lat>>

\* line 167: done.wait(timeout) returns False.
WaitTimeout(t) ==
    /\ caller[t].pc = "wait"
    /\ WaitExpires(heap[caller[t].job].done)
    /\ caller' = [caller EXCEPT ![t].pc = "to"]
    /\ UNCHANGED <<stream, next_allowed_time, jobs_run, job, job_lock, heap,
                   cb, calls, armed_since_open, returned_since_open, g, est, dsp, lat>>

\* line 168: with self._job_lock (acquire).
TimeoutLock(t) ==
    /\ caller[t].pc = "to"
    /\ job_lock = NoThread
    /\ job_lock' = t
    /\ caller' = [caller EXCEPT ![t].pc = "to_cs"]
    /\ UNCHANGED <<stream, next_allowed_time, jobs_run, job, heap, cb, calls, armed_since_open, returned_since_open, g, est, dsp, lat>>

\* lines 169-170: self._job = None; raise TimeoutError.
TimeoutBody(t) ==
    /\ caller[t].pc = "to_cs"
    /\ job_lock = t
    /\ job_lock' = NoThread
    /\ job' = TimeoutSlot(job)
    /\ caller' = [caller EXCEPT ![t] = EndCall(@, "Timeout", <<>>)]
    /\ heap' = Collect(heap, job', caller', cb)
    /\ UNCHANGED <<stream, next_allowed_time, jobs_run, cb, calls,
                   armed_since_open, returned_since_open, g, est, dsp, lat>>

\* lines 167, 172-183: done.wait returns True; return the recording unless
\* the first attempt had an xrun, in which case pause and retry.
WaitDone(t) ==
    /\ caller[t].pc = "wait"
    /\ heap[caller[t].job].done
    /\ LET c == caller[t]
           j == heap[c.job]
       IN IF Returns(j.had_xrun, c.attempt)
          THEN /\ caller' = [caller EXCEPT ![t] =
                      EndCall(@, "Recorded",
                              Recorded(j.rec, c.priming_frames, c.total_frames))]
               /\ next_allowed_time' = CooldownTicks
               /\ jobs_run' = jobs_run + 1
               /\ returned_since_open' = returned_since_open + 1
               /\ heap' = Collect(heap, job, caller', cb)
          ELSE /\ caller' = [caller EXCEPT ![t].pc = "retry_sleep",
                                           ![t].first_xrun = j.had_xrun,
                                           ![t].wake = RetryPauseTicks]
               /\ UNCHANGED <<next_allowed_time, jobs_run,
                              returned_since_open, heap>>
    /\ UNCHANGED <<stream, job, job_lock, cb, calls, armed_since_open, g, est, dsp, lat>>

\* line 183 and the loop head: after the pause, attempt 1 rebinds
\* recorded_full, done and job.
Retry(t) ==
    /\ caller[t].pc = "retry_sleep"
    /\ caller[t].wake = 0
    /\ caller' = [caller EXCEPT ![t].pc = "arm", ![t].attempt = 1,
                                ![t].job = NoJob]
    /\ heap' = Collect(heap, job, caller', cb)
    /\ UNCHANGED <<stream, next_allowed_time, jobs_run, job, job_lock, cb,
                   calls, armed_since_open, returned_since_open, g, est, dsp, lat>>

\* ------------------------------------------------ the driver callback
\* (mutant) the record buffer is filled from its own cursor, which starts
\* again at frame 0 in every invocation.
CopyInFromStart(rec, idx, end, chunk) ==
    [i \in 1 .. Len(rec) |->
        IF i <= end - idx /\ i <= Len(chunk) THEN chunk[i] ELSE rec[i]]

\* rec[idx:end] = indata[:n, 0], the input block tagged with the output
\* block of the same invocation (chunk).
CopyIn(rec, idx, end, chunk) ==
    [i \in 1 .. Len(rec) |->
        IF idx < i /\ i <= end /\ i - idx <= Len(chunk)
        THEN chunk[i - idx] ELSE rec[i]]

\* _callback, lines 62-96: read the slot under the lock; with no job, play
\* silence; else flag a status report, play and record one block and
\* advance the cursor.  A shape mismatch of the copies would raise.
CbRun(status) ==
    /\ stream
    /\ cb.pc = "idle"
    /\ ~cb.raised
    /\ job_lock = NoThread
    /\ IF job = NoJob
       THEN UNCHANGED <<heap, cb>>
       ELSE LET h == heap[job]
                end == Min(h.idx + FramesPerBuffer, h.total)
                n == end - h.idx
                chunk == Slice(h.play, h.idx, end)
                bad == n > 0 /\ (Len(chunk) # n \/ end > Len(h.rec))
            IN /\ heap' = [heap EXCEPT ![job] =
                      [h EXCEPT !.had_xrun = h.had_xrun \/ status,
                                !.rec = CopyIn(h.rec, h.idx, end, chunk),
                                !.idx = end]]
               /\ cb' = IF bad THEN [cb EXCEPT !.raised = TRUE]
                        ELSE IF end >= h.total
                             THEN [cb EXCEPT !.pc = "signal", !.job = job]
                             ELSE cb
    /\ UNCHANGED <<stream, next_allowed_time, jobs_run, job, job_lock, caller,
                   calls, armed_since_open, returned_since_open, g, est, dsp, lat>>

\* line 98: job["done"].set()
CbSignal ==
    /\ cb.pc = "signal"
    /\ heap' = [heap EXCEPT ![cb.job].done = TRUE]
    /\ cb' = [cb EXCEPT !.pc = "clear"]
    /\ UNCHANGED <<stream, next_allowed_time, jobs_run, job, job_lock, caller,
                   calls, armed_since_open, returned_since_open, g, est, dsp, lat>>

\* lines 99-100: with self._job_lock: self._job = None
CbClear ==
    /\ cb.pc = "clear"
    /\ job_lock = NoThread
    /\ job' = NoJob
    /\ cb' = [cb EXCEPT !.pc = "idle", !.job = NoJob]
    /\ heap' = Collect(heap, job', caller, cb')
    /\ UNCHANGED <<stream, next_allowed_time, jobs_run, job_lock, caller, calls, armed_since_open, returned_since_open, g, est, dsp, lat>>

\* close(): stop and close the hardware stream (stop() returns once the
\* running callback invocation has returned); self.stream = None.
Close ==
    /\ stream
    /\ cb.pc = "idle"
    /\ stream' = FALSE
    /\ UNCHANGED <<next_allowed_time, jobs_run, job, job_lock, heap, caller,
                   cb, calls, armed_since_open, returned_since_open, g, est, dsp, lat>>

\* time.monotonic() advances by one tick: every pending time comes one
\* tick closer.
Down(x) == IF x > 0 THEN x - 1 ELSE 0

Tick ==
    /\ \/ next_allowed_time > 0
       \/ \E t \in Callers : caller[t].wake > 0 \/ caller[t].entry_deadline > 0
    /\ next_allowed_time' = Down(next_allowed_time)
    /\ caller' = [t \in Callers |->
                    [caller[t] EXCEPT !.wake = Down(@),
                                      !.entry_deadline = Down(@)]]
    /\ UNCHANGED <<stream, jobs_run, job, job_lock, heap, cb, calls,
                   armed_since_open, returned_since_open, g, est, dsp, lat>>

\* Arguments of play_and_record: the signal's length and extra frames.
Inputs == (1 .. MaxSigLen) \X (-1 .. MaxExtra)

\* The arguments used when two threads call concurrently.
DuoInputs == {<<1, -1>>, <<1, 0>>}

CallerStep(t) ==
    \/ Pace(t)
    \/ Prepare(t)
    \/ ArmLock(t)
    \/ ArmBody(t)
    \/ WaitTimeout(t)
    \/ TimeoutLock(t)
    \/ TimeoutBody(t)
    \/ WaitDone(t)
    \/ Retry(t)

Driver ==
    \/ \E status \in BOOLEAN : CbRun(status)
    \/ CbSignal
    \/ CbClear
    \/ Close
    \/ Tick

\* Two caller threads and the driver callback on one stream.
Next ==
    \/ \E t \in Callers, a \in DuoInputs : Call(t, a[1], a[2])
    \/ \E t \in Callers : CallerStep(t)
    \/ Driver

Spec == Init /\ [][Next]_vars

\* One caller thread issuing calls one after another, and the callback.
InitSolo ==
    /\ stream = TRUE
    /\ next_allowed_time = 0
    /\ jobs_run = 0
    /\ job = NoJob
    /\ job_lock = NoThread
    /\ heap = [j \in JobIds |-> NullJob]
    /\ caller = [t \in Callers |-> IdleCaller]
    /\ cb = IdleCb
    /\ calls = MaxSoloCalls
    /\ armed_since_open = 0
    /\ returned_since_open = 0
    /\ g = GInit
    /\ est = EstInit
    /\ dsp = NoDsp
    /\ lat = LatInit

NextSolo ==
    \/ \E a \in Inputs : Call("t1", a[1], a[2])
    \/ CallerStep("t1")
    \/ Driver

SpecSolo == InitSolo /\ [][NextSolo]_vars

\* Scheduling: time advances, and a thread inside play_and_record keeps
\* being scheduled (its sleeps end, the lock is handed over, its bounded wait
\* returns).  Nothing is assumed of the driver: the callback may stop being
\* invoked at any point.  Each of the caller threads' calls is followed.
InitLive ==
    /\ stream = TRUE
    /\ next_allowed_time = 0
    /\ jobs_run = 0
    /\ job = NoJob
    /\ job_lock = NoThread
    /\ heap = [j \in JobIds |-> NullJob]
    /\ caller = [t \in Callers |-> IdleCaller]
    /\ cb = IdleCb
    /\ calls = Cardinality(Callers)
    /\ armed_since_open = 0
    /\ returned_since_open = 0
    /\ g = GInit
    /\ est = EstInit
    /\ dsp = NoDsp
    /\ lat = LatInit

SpecLive ==
    /\ InitLive
    /\ [][Next]_vars
    /\ WF_vars(Tick)
    /\ \A t \in Callers : WF_vars(CallerStep(t))

\* ------------------------------------- io/audio.py, io/audio_safe.py
\* sessions opened per behaviour
MaxOpens == 3

\* (mutant) the signature leaves out the latency field.
CfgSignatureNoLatency(cfg) ==
    <<cfg.sample_rate, cfg.frames_per_buffer, cfg.channels_rec,
      cfg.channels_play, cfg.rec_device, cfg.play_device>>

\* _cfg_signature(cfg)
CfgSignature(cfg) ==
    <<cfg.sample_rate, cfg.frames_per_buffer, cfg.channels_rec,
      cfg.channels_play, cfg.rec_device, cfg.play_device, cfg.latency>>

\* PersistentAudioStream(cfg): a new open session of module mod.
Open(gg, mod, cfg) ==
    [id |-> gg.opened + 1, cfg |-> cfg, mod |-> mod]

\* stream.close() of a module's session: its hardware session is released.
Released(hw, sess) == {h \in hw : h.id # sess.id}

streamUnchanged == UNCHANGED <<streamVars, est, dsp, lat>>

\* (mutant) the old session is not closed before the new one is opened.
OldSessionKept(gg) == gg.hw

\* get_global_stream (io/audio.py), lines 196-200: the hardware sessions
\* left once the old session, if any, has been closed.
OldSessionClosed(gg) ==
    IF gg.audio_stream # NoSession THEN Released(gg.hw, gg.audio_stream)
                                   ELSE gg.hw

\* get_global_stream (io/audio.py), lines 192-200 and 203: with the stored
\* session and an equal signature, return the stored session (and, for
\* play_and_record, play on it); else close the old session and go on to
\* open a new one.
GetBegin(op, cfg) ==
    /\ g.pc = "idle"
    /\ ~g.exited
    /\ IF g.audio_stream = NoSession \/ g.audio_sig # CfgSignature(cfg)
       THEN /\ g.opened < MaxOpens
            /\ g' = [g EXCEPT !.pc = "opening", !.op = op, !.req = cfg,
                              !.hw = OldSessionClosed(g), !.last = NoLast]
       ELSE g' = [g EXCEPT !.last =
                     [op |-> op, req |-> cfg, ret |-> g.audio_stream.id,
                      on |-> IF op = "get_global_stream" THEN NoCfg
                             ELSE g.audio_stream.cfg]]
    /\ streamUnchanged

\* get_global_stream(cfg) of io/audio.py, called directly.
GetGlobalStream(cfg) == GetBegin("get_global_stream", cfg)

\* measure_latency: the warm-up and every cycle call
\* play_and_record(signal, cfg_audio) of io/audio.py (lines 278-281), which
\* gets the global stream for cfg_audio and plays and records on it.
MeasureLatency(cfg) == GetBegin("measure_latency", cfg)

\* get_global_stream (io/audio.py), lines 201-203: the new session and its
\* signature are stored and the session is returned.
GetOpen ==
    /\ g.pc = "opening"
    /\ LET new == Open(g, "audio", g.req)
       IN g' = [g EXCEPT !.pc = "idle", !.op = "none", !.req = NoCfg,
                         !.audio_stream = [id |-> new.id, cfg |-> new.cfg],
                         !.audio_sig = CfgSignature(g.req),
                         !.hw = g.hw \cup {new},
                         !.opened = g.opened + 1,
                         !.last = [op |-> g.op, req |-> g.req, ret |-> new.id,
                                   on |-> IF g.op = "get_global_stream"
                                          THEN NoCfg ELSE new.cfg]]
    /\ streamUnchanged

\* close_global_stream (io/audio.py)
CloseGlobalStream ==
    /\ g.pc = "idle"
    /\ ~g.exited
    /\ g' = [g EXCEPT !.hw = OldSessionClosed(g),
                      !.audio_stream = NoSession, !.audio_sig = NoSig,
                      !.last = [NoLast EXCEPT !.op = "close_global_stream"]]
    /\ streamUnchanged

\* get_global_stream (io/audio_safe.py): the session is created once; the
\* requested configuration is not compared with the stored session's.
SafeGet(gg, cfg) ==
    IF gg.safe_stream = NoSession
    THEN LET new == Open(gg, "audio_safe", cfg)
         IN [gg EXCEPT !.safe_stream = [id |-> new.id, cfg |-> new.cfg],
                       !.hw = gg.hw \cup {new},
                       !.opened = gg.opened + 1]
    ELSE gg

\* measure_distance, lines 211-214: get the global stream of io/audio_safe.py
\* for cfg_audio, then play and record on it.
MeasureDistance(cfg) ==
    /\ g.pc = "idle"
    /\ ~g.exited
    /\ g.safe_stream = NoSession => g.opened < MaxOpens
    /\ LET h == SafeGet(g, cfg)
       IN g' = [h EXCEPT !.last = [op |-> "measure_distance", req |-> cfg,
                                   ret |-> h.safe_stream.id,
                                   on |-> h.safe_stream.cfg]]
    /\ streamUnchanged

\* close_global_stream (io/audio_safe.py)
SafeClose(gg) ==
    IF gg.safe_stream # NoSession
    THEN [gg EXCEPT !.hw = Released(gg.hw, gg.safe_stream),
                    !.safe_stream = NoSession]
    ELSE gg

SafeCloseGlobalStream ==
    /\ g.pc = "idle"
    /\ ~g.exited
    /\ g' = [SafeClose(g) EXCEPT
                !.last = [NoLast EXCEPT !.op = "close_global_stream"]]
    /\ streamUnchanged

\* Process exit: atexit runs close_global_stream of both modules.
AtExit ==
    /\ g.pc = "idle"
    /\ ~g.exited
    /\ g' = [SafeClose(g) EXCEPT
                !.hw = OldSessionClosed(SafeClose(g)),
                !.audio_stream = NoSession, !.audio_sig = NoSig,
                !.exited = TRUE,
                !.last = [NoLast EXCEPT !.op = "atexit"]]
    /\ streamUnchanged

NextGlobal ==
    \/ \E cfg \in Cfgs : GetGlobalStream(cfg)
    \/ \E cfg \in Cfgs : MeasureLatency(cfg)
    \/ GetOpen
    \/ CloseGlobalStream
    \/ \E cfg \in Cfgs : MeasureDistance(cfg)
    \/ SafeCloseGlobalStream
    \/ AtExit

SpecGlobal == Init /\ [][NextGlobal]_vars

\* ------------------------------------------------ dsp/correlation.py
\* Samples are integers (tenths of the unit amplitude).  A result that need
\* not be an integer is an exact fraction <<numerator, denominator>> in
\* lowest terms with a positive denominator.
MaxArrayLen == 3
MaxSample == 2
MaxNumPeaks == 3
MaxMinDistance == 2
MaxRefLen == 2

Max(a, b) == IF a > b THEN a ELSE b

Abs(x) == IF x < 0 THEN -x ELSE x

RECURSIVE Gcd(_, _)
Gcd(a, b) == IF b = 0 THEN a ELSE Gcd(b, a % b)

Frac(n, d) ==
    LET s == IF d < 0 THEN -1 ELSE 1
        k == Gcd(Abs(n), Abs(d))
    IN <<(s * n) \div k, (s * d) \div k>>

FromInt(n) == <<n, 1>>

FAdd(x, y) == Frac(x[1] * y[2] + y[1] * x[2], x[2] * y[2])

FSub(x, y) == Frac(x[1] * y[2] - y[1] * x[2], x[2] * y[2])

FMul(x, y) == Frac(x[1] * y[1], x[2] * y[2])

FDiv(x, y) == Frac(x[1] * y[2], x[2] * y[1])

FLess(x, y) == x[1] * y[2] < y[1] * x[2]

\* All arrays of length lo .. hi over the values vals.
Arrays(vals, lo, hi) == UNION {[1 .. n -> vals] : n \in lo .. hi}

\* np.argmax(a): the (0-based) index of the first maximum.
ArgMax(a) ==
    (CHOOSE i \in 1 .. Len(a) :
        /\ \A j \in 1 .. Len(a) : a[j] <= a[i]
        /\ \A j \in 1 .. (i - 1) : a[j] < a[i]) - 1

\* A Python slice bound b on an array of length n: a negative bound counts
\* from the end, and bounds are clipped to 0 .. n.
PyBound(n, b) == IF b < 0 THEN Max(b + n, 0) ELSE Min(b, n)

\* (mutant) only the peak sample itself is cleared.
ZeroPeakOnly(a, idx, md) == [i \in 1 .. Len(a) |-> IF i = idx + 1 THEN 0 ELSE a[i]]

\* start = max(0, idx - min_distance); end = min(len(corr_copy), idx +
\* min_distance); corr_copy[start:end] = 0
ZeroAround(a, idx, md) ==
    LET lo == PyBound(Len(a), Max(0, idx - md))
        hi == PyBound(Len(a), Min(Len(a), idx + md))
    IN SubSeq([i \in 1 .. Len(a) |-> IF lo < i /\ i <= hi THEN 0 ELSE a[i]],
              1, Len(a))

\* The loop of find_peaks with k iterations left, on the working copy.
RECURSIVE FindPeaksLoop(_, _, _, _)
FindPeaksLoop(copy, k, md, peaks) ==
    IF k <= 0
    THEN [peaks |-> peaks, copy |-> copy]
    ELSE LET idx == ArgMax(copy)
             value == copy[idx + 1]
         IN IF value <= 0
            THEN [peaks |-> peaks, copy |-> copy]
            ELSE FindPeaksLoop(ZeroAround(copy, idx, md), k - 1, md,
                               Append(peaks, <<idx, value>>))

\* find_peaks(corr, num_peaks, min_distance): the peaks returned (or the
\* error raised: np.argmax of an empty array), the caller's array after the
\* call (the loop writes to corr.copy() only) and the working copy at the end.
FindPeaks(corr, num_peaks, md) ==
    IF num_peaks > 0 /\ Len(corr) = 0
    THEN [error |-> "ValueError", peaks |-> <<>>, input |-> corr, copy |-> corr]
    ELSE LET r == FindPeaksLoop(corr, num_peaks, md, <<>>)
         IN [error |-> "none", peaks |-> r.peaks, input |-> corr,
             copy |-> r.copy]

\* 2 ** int(np.ceil(np.log2(n))) for n >= 1.
RECURSIVE Pow2From(_, _)
Pow2From(p, n) == IF p >= n THEN p ELSE Pow2From(2 * p, n)

NextPow2(n) == Pow2From(1, n)

\* np.fft.fft(a, n=n_fft): a zero-padded to n_fft samples.
Padded(a, n_fft) == [i \in 1 .. n_fft |-> IF i <= Len(a) THEN a[i] ELSE 0]

\* (mutant) the product is not conjugated: a circular convolution.
RECURSIVE CircularConv(_, _, _, _)
CircularConv(ref, sig, k, m) ==
    IF m >= Len(ref) THEN 0
    ELSE ref[m + 1] * sig[((k - m) % Len(sig)) + 1]
         + CircularConv(ref, sig, k, m + 1)

\* ifft(fft(sig) * conj(fft(ref))).real at index k: the circular
\* cross-correlation sum over m of ref[m] * sig[(m + k) mod n_fft], summed
\* from m on; sig is the padded recording.
RECURSIVE CircularCorr(_, _, _, _)
CircularCorr(ref, sig, k, m) ==
    IF m >= Len(ref) THEN 0
    ELSE ref[m + 1] * sig[((m + k) % Len(sig)) + 1]
         + CircularCorr(ref, sig, k, m + 1)

\* corr_full[:n]: the first n = len(sig) + len(ref) - 1 samples of the
\* circular correlation over n_fft samples.  (The padded signal and the
\* reference are bound once, so that TLC evaluates each once.)
CorrFull(ref, sig) ==
    LET n == Len(sig) + Len(ref) - 1
        n_fft == NextPow2(n)
    IN CHOOSE corr \in
           {SubSeq([k \in 1 .. n |-> CircularCorr(r, padded, k - 1, 0)], 1, n) :
               r \in {ref}, padded \in {SubSeq(Padded(sig, n_fft), 1, n_fft)}} :
           TRUE

\* cross_correlation(ref, sig) for non-empty ref and sig.
CrossCorrelation(ref, sig) ==
    CHOOSE res \in
        {[peak_idx |-> ArgMax(corr), peak |-> corr[ArgMax(corr) + 1],
          corr |-> corr] : corr \in {CorrFull(ref, sig)}} :
        TRUE

\* (mutant) a missing neighbour counts as 0.
NeighbourOrZero(corr, index, j) ==
    IF j >= 0 /\ j < Len(corr) THEN corr[j + 1] ELSE 0

\* corr[j] if j is inside the array else corr[index]
NeighbourOrCentre(corr, index, j) ==
    IF j >= 0 /\ j < Len(corr) THEN corr[j + 1] ELSE corr[index + 1]

\* parabolic_interpolate(corr, index) for 0 <= index < len(corr):
\* <<refined_index, refined_value>>.
ParabolicInterpolate(corr, index) ==
    LET left == NeighbourOrCentre(corr, index, index - 1)
        center == corr[index + 1]
        right == NeighbourOrCentre(corr, index, index + 1)
        denom == 2 * (left - 2 * center + right)
    IN IF denom = 0
       THEN <<FromInt(index), FromInt(center)>>
       ELSE LET delta == Frac(left - right, denom)
            IN <<FAdd(FromInt(index), delta),
                 FSub(FromInt(center),
                      FDiv(FMul(FromInt(left - right), delta), FromInt(4)))>>

\* The inputs the functions are applied to: every small array, and the
\* arrays of the unit tests.
ExamplePeaks == <<0, 10, 0, 0, 5, 0, 0, 8, 0>>
ExampleSymmetric == <<0, 9, 10, 9, 0>>
ExampleFlatTop == <<0, 2, 2, 0>>

PeakInputs == Arrays(-1 .. MaxSample, 0, MaxArrayLen) \cup {ExamplePeaks}

CurveInputs ==
    Arrays(-1 .. MaxSample, 1, MaxArrayLen)
        \cup {ExampleSymmetric, ExampleFlatTop}

RefInputs == Arrays(-1 .. 1, 1, MaxRefLen)

SigInputs == Arrays(-1 .. 1, 1, MaxRefLen + MaxArrayLen - 1)

FindPeaksApply ==
    \E corr \in PeakInputs, num \in 0 .. MaxNumPeaks,
       md \in -1 .. MaxMinDistance :
        /\ dsp = NoDsp
        /\ dsp' = [op |-> "find_peaks", corr |-> corr, ref |-> <<>>,
                   num |-> num, md |-> md, res |-> FindPeaks(corr, num, md)]
        /\ UNCHANGED <<streamVars, g, est, lat>>

CrossCorrelationApply ==
    \E ref \in RefInputs, sig \in SigInputs :
        /\ dsp = NoDsp
        /\ dsp' = [op |-> "cross_correlation", corr |-> sig, ref |-> ref,
                   num |-> 0, md |-> 0, res |-> CrossCorrelation(ref, sig)]
        /\ UNCHANGED <<streamVars, g, est, lat>>

ParabolicInterpolateApply ==
    \E corr \in CurveInputs :
        \E index \in 0 .. (Len(corr) - 1) :
            /\ dsp = NoDsp
            /\ dsp' = [op |-> "parabolic_interpolate", corr |-> corr,
                       ref |-> <<>>, num |-> index, md |-> 0,
                       res |-> ParabolicInterpolate(corr, index)]
            /\ UNCHANGED <<streamVars, g, est, lat>>

NextDsp ==
    \/ FindPeaksApply
    \/ CrossCorrelationApply
    \/ ParabolicInterpolateApply

SpecDsp == Init /\ [][NextDsp]_vars

\* ------------------------------------------------ utils/distance.py
\* Seconds, metres, hertz and amplitudes are exact fractions <<num, den>>;
\* an argument left at None is <<>>.  cfg_audio is a configuration of Cfgs
\* and its sample rate is drawn from two concrete rates.
None == <<>>

FZero == <<0, 1>>

FLeq(x, y) == x[1] * y[2] <= y[1] * x[2]

FMax(x, y) == IF FLess(x, y) THEN y ELSE x

FMin(x, y) == IF FLess(y, x) THEN y ELSE x

\* int(x): truncation toward zero.
Trunc(x) == IF x[1] >= 0 THEN x[1] \div x[2] ELSE -((-x[1]) \div x[2])

\* AudioDeviceConfig.sample_rate: the default, or another rate.
DefaultSampleRate == 48000
OtherSampleRate == 96000

\* the rate of the calibration runs (cfg.sample_rate = 2)
LowSampleRate == 4000

SampleRate(cfg) ==
    IF cfg.sample_rate = 0 THEN DefaultSampleRate
    ELSE IF cfg.sample_rate = 1 THEN OtherSampleRate
    ELSE LowSampleRate

\* SPEED_OF_SOUND.get(medium, SPEED_OF_SOUND["air"]), in m/s
SpeedAir == 343
SpeedWater == 1480

SPEED_OF_SOUND(medium) == IF medium = "water" THEN SpeedWater ELSE SpeedAir

\* The guard margin of the search window, in samples.
GuardSamples == 50

\* find_peaks(corr_window, num_peaks=15, min_distance=50)
WindowNumPeaks == 15
WindowMinDistance == 50

\* (mutant) the check of filter_size is missing.
ValidateNoFilterSize(a) ==
    IF FLeq(a.duration, FZero) THEN "ValueError"
    ELSE IF FLess(FromInt(1), a.duration) THEN "ValueError"
    ELSE IF FLeq(a.start_freq, FZero) \/ FLeq(a.end_freq, FZero)
         THEN "ValueError"
    ELSE IF FLeq(a.end_freq, a.start_freq) THEN "ValueError"
    ELSE IF ~(FLeq(FZero, a.amplitude) /\ FLeq(a.amplitude, FromInt(1)))
         THEN "ValueError"
    ELSE IF FLess(a.min_distance_m, FZero) THEN "ValueError"
    ELSE IF FLeq(a.max_distance_m, FZero) THEN "ValueError"
    ELSE IF FLeq(a.max_distance_m, a.min_distance_m) THEN "ValueError"
    ELSE IF a.extra_record_seconds # None
            /\ FLess(a.extra_record_seconds, FZero) THEN "ValueError"
    ELSE "ok"

\* The validation of measure_distance, in its order: the error raised, or
\* "ok".  min_distance_m and max_distance_m are the values after the
\* settings have filled in the ones left at None.
Validate(a) ==
    IF FLeq(a.duration, FZero) THEN "ValueError"
    ELSE IF FLess(FromInt(1), a.duration) THEN "ValueError"
    ELSE IF FLeq(a.start_freq, FZero) \/ FLeq(a.end_freq, FZero)
         THEN "ValueError"
    ELSE IF FLeq(a.end_freq, a.start_freq) THEN "ValueError"
    ELSE IF ~(FLeq(FZero, a.amplitude) /\ FLeq(a.amplitude, FromInt(1)))
         THEN "ValueError"
    ELSE IF a.filter_size < 0 THEN "ValueError"
    ELSE IF FLess(a.min_distance_m, FZero) THEN "ValueError"
    ELSE IF FLeq(a.max_distance_m, FZero) THEN "ValueError"
    ELSE IF FLeq(a.max_distance_m, a.min_distance_m) THEN "ValueError"
    ELSE IF a.extra_record_seconds # None
            /\ FLess(a.extra_record_seconds, FZero) THEN "ValueError"
    ELSE "ok"

\* cache_key: the transmit chirp's parameters (fade_fraction 0), the sample
\* rate and the amplitude.
CacheKey(a) ==
    <<a.start_freq, a.end_freq, a.duration, FZero, SampleRate(a.cfg),
      a.amplitude>>

\* len(generate_chirp(cfg, sample_rate)) = int(sr * cfg.duration)
ChirpLen(a) == Trunc(FMul(FromInt(SampleRate(a.cfg)), a.duration))

\* chirp_ref: generate_chirp with fade_fraction max(reference_fade, 0.05),
\* normalized to peak 1.  For the chirps of up to 19 samples used here
\* fade_len is 1, the ramp is [0.0] and the window zeroes the first and the
\* last sample; what is left of a three-sample sweep is its middle sample,
\* which normalize scales to 1 (to 0 for a silent chirp of amplitude 0).
ChirpRef(a) ==
    [i \in 1 .. ChirpLen(a) |->
        IF i = 1 \/ i = ChirpLen(a) \/ a.amplitude = FZero THEN 0 ELSE 1]

\* chirp_ref[::-1]
Reversed(s) == [i \in 1 .. Len(s) |-> s[Len(s) + 1 - i]]

\* compute_extra_record_seconds(medium, max_distance_m, extra_record_seconds,
\* default 0.1, guard_seconds 0.005) for arguments that passed validation.
ComputeExtraRecordSeconds(a) ==
    IF a.extra_record_seconds # None THEN a.extra_record_seconds
    ELSE FAdd(FDiv(FMul(FromInt(2), a.max_distance_m),
                   FromInt(SPEED_OF_SOUND(a.medium))),
              Frac(5, 1000))

\* PersistentAudioStream.play_and_record (io/audio_safe.py):
\* total_frames = len(play_signal) + int(extra_record_seconds * sample_rate)
\* samples are recorded on the session's sample rate.
TotalFrames(a, sess_cfg) ==
    ChirpLen(a)
        + Trunc(FMul(ComputeExtraRecordSeconds(a),
                     FromInt(SampleRate(sess_cfg))))

\* The value measure_distance binds to `recorded`.  The play_and_record of
\* io/audio_safe.py returns the recording alone, while measure_distance
\* unpacks a pair (recorded, tx_sample_index) from it; the pair-returning
\* play_and_record is not part of the sources, and tx_sample_index is not
\* used afterwards.  The recording is what play_and_record recorded.
PlayAndRecordResult(recording) == recording

\* system_latency_s * sample_rate
SystemLatencySamples(a) ==
    FMul(a.system_latency_s, FromInt(SampleRate(a.cfg)))

\* (2.0 * distance / sound_speed) * sample_rate
RoundTripLag(a, distance_m) ==
    FMul(FDiv(FMul(FromInt(2), distance_m),
              FromInt(SPEED_OF_SOUND(a.medium))),
         FromInt(SampleRate(a.cfg)))

\* start_lag_samples
StartLagSamples(a) ==
    IF FLess(FZero, a.min_distance_m)
    THEN FAdd(SystemLatencySamples(a),
              FMax(FromInt(GuardSamples), RoundTripLag(a, a.min_distance_m)))
    ELSE FAdd(SystemLatencySamples(a), FromInt(GuardSamples))

\* start_idx = int(ref_offset + int(start_lag_samples))
StartIdx(a, ref_offset) == ref_offset + Trunc(StartLagSamples(a))

\* end_idx, with the fallback to len(corr) - 2 when end_idx <= start_idx + 2
EndIdx(a, ref_offset, n) ==
    LET end_idx ==
            Min(n - 2, ref_offset + Trunc(RoundTripLag(a, a.max_distance_m)))
    IN IF end_idx <= StartIdx(a, ref_offset) + 2 THEN n - 2 ELSE end_idx

\* corr[start:end] of Python, with the 0-based index of its first sample.
PySlice(s, start, end) ==
    LET lo == PyBound(Len(s), start)
        hi == PyBound(Len(s), end)
    IN [first |-> lo, items |-> SubSeq(s, lo + 1, hi)]

\* strong_peaks: the peaks above 30% of the strongest, in their order.
StrongPeaks(peaks) ==
    SelectSeq(peaks, LAMBDA p : 10 * p[2] > 3 * peaks[1][2])

\* (mutant) the strongest peak is selected, whatever the second strongest.
SelectStrongest(peaks, window) ==
    IF Len(peaks) > 0 THEN peaks[1][1] ELSE ArgMax(window)

\* best_peak_relative_idx: the strongest of the strong peaks, or the
\* earlier of the two strongest when (p1 - p2) / p1 < 0.2; the strongest
\* peak when none is strong; the window's argmax when there is no peak.
SelectPeak(peaks, window) ==
    IF Len(peaks) > 0
    THEN LET strong == StrongPeaks(peaks)
         IN IF Len(strong) > 0
            THEN IF Len(strong) > 1
                    /\ 10 * (strong[1][2] - strong[2][2]) < 2 * strong[1][2]
                 THEN Min(strong[1][1], strong[2][1])
                 ELSE strong[1][1]
            ELSE peaks[1][1]
    ELSE ArgMax(window)

\* Lines 258-333 on the correlation array corr of a reference of
\* ref_len samples: the window, the selected peak and the distance, or the
\* ValueError of an empty window.
EstimateOn(a, ref_len, corr) ==
    LET ref_offset == ref_len - 1
        start_idx == StartIdx(a, ref_offset)
        end_idx == EndIdx(a, ref_offset, Len(corr))
    IN CHOOSE res \in
        {IF Len(corr_window.items) = 0
         THEN [error |-> "ValueError"]
         ELSE LET peaks == FindPeaks(corr_window.items, WindowNumPeaks,
                                     WindowMinDistance).peaks
                  best_peak_idx ==
                      start_idx + SelectPeak(peaks, corr_window.items)
                  refined == ParabolicInterpolate(corr, best_peak_idx)
                  refined_lag == FSub(refined[1], FromInt(ref_offset))
                  total_time_s ==
                      FDiv(refined_lag, FromInt(SampleRate(a.cfg)))
                  time_of_flight_s == FSub(total_time_s, a.system_latency_s)
              IN [error |-> "none",
                  lag_samples |-> best_peak_idx - ref_offset,
                  refined_lag |-> refined_lag,
                  distance_m |->
                      FDiv(FMul(FromInt(SPEED_OF_SOUND(a.medium)),
                                time_of_flight_s), FromInt(2))] :
            corr_window \in {PySlice(corr, start_idx, end_idx)}} :
        TRUE

\* Lines 255-333 on a recording: the recording is correlated with the
\* reversed reference chirp.
Estimate(a, recorded) ==
    CHOOSE res \in
        {EstimateOn(a, ChirpLen(a), corr) :
            corr \in {CorrFull(Reversed(ChirpRef(a)), recorded)}} :
        TRUE

\* filter sizes and buffer sizes used
MaxFilterSize == 3

\* (mutant) the oldest items are kept.
DequeKeepsOldest(items, maxlen) == SubSeq(items, 1, Min(Len(items), maxlen))

\* deque(items, maxlen=maxlen): the last maxlen items, in their order.
Deque(items, maxlen) ==
    SubSeq(items, Max(Len(items) - maxlen, 0) + 1, Len(items))

\* (mutant) the resized buffer starts empty.
ResizedEmpty(e, size) ==
    LET max_size == Max(1, size)
    IN [e EXCEPT !.buffer = <<>>, !.maxlen = max_size]

\* set_smoothing_buffer_size(size) on the module's state
Resized(e, size) ==
    LET max_size == Max(1, size)
    IN [e EXCEPT !.buffer = Deque(e.buffer, max_size), !.maxlen = max_size]

RECURSIVE FSum(_)
FSum(s) == IF s = <<>> THEN FZero ELSE FAdd(s[1], FSum(Tail(s)))

\* sum(buffer) / len(buffer)
Mean(s) == FDiv(FSum(s), FromInt(Len(s)))

\* enable_smoothing and filter_size > 1
SmoothingApplies(a) == a.enable_smoothing /\ a.filter_size > 1

\* The medium, chirp and audio configuration a measurement belongs to.
Session(a) == <<a.medium, CacheKey(a), a.cfg>>

\* The last MaxFilterSize entries of the list of pushes.
Recent(h) == SubSeq(h, Max(Len(h) - MaxFilterSize, 0) + 1, Len(h))

\* (mutant) without smoothing the mean of the buffer is reported.
SmoothedElseBufferMean(e, a, distance_m) ==
    IF SmoothingApplies(a)
    THEN LET r == IF e.maxlen # a.filter_size THEN Resized(e, a.filter_size)
                  ELSE e
             buffer == Deque(Append(r.buffer, distance_m), r.maxlen)
         IN [est |-> [r EXCEPT !.buffer = buffer,
                               !.hist = Recent(Append(e.hist,
                                   [d |-> distance_m, by |-> Session(a)]))],
             smoothed_distance_m |->
                 IF Len(buffer) > 0 THEN Mean(buffer) ELSE distance_m]
    ELSE [est |-> e,
          smoothed_distance_m |->
              IF Len(e.buffer) > 0 THEN Mean(e.buffer) ELSE distance_m]

\* Lines 336-348: the module's state after the smoothing step and the
\* smoothed distance.  hist lists the distances pushed since the last clear
\* (the last MaxFilterSize of them), each with the session that pushed it;
\* the program keeps no such list.
Smoothed(e, a, distance_m) ==
    IF SmoothingApplies(a)
    THEN LET r == IF e.maxlen # a.filter_size THEN Resized(e, a.filter_size)
                  ELSE e
             buffer == Deque(Append(r.buffer, distance_m), r.maxlen)
         IN [est |-> [r EXCEPT !.buffer = buffer,
                               !.hist = Recent(Append(e.hist,
                                   [d |-> distance_m, by |-> Session(a)]))],
             smoothed_distance_m |->
                 IF Len(buffer) > 0 THEN Mean(buffer) ELSE distance_m]
    ELSE [est |-> e, smoothed_distance_m |-> distance_m]

\* The recording of n samples that is silent but for the samples of echoes,
\* a set of <<0-based sample index, value>>.
Recording(n, echoes) ==
    SubSeq([i \in 1 .. n |->
               IF \E e \in echoes : e[1] = i - 1
               THEN (CHOOSE e \in echoes : e[1] = i - 1)[2] ELSE 0], 1, n)

\* measure_distance(cfg_audio, cfg_chirp, ...) with the arguments a, the
\* microphone hearing echoes.  Validation comes first; then the chirp is
\* cached, the stream of io/audio_safe.py is got and played on, and the
\* recording is correlated, windowed, searched and smoothed.
measure_distance(a, echoes) ==
    /\ g.pc = "idle"
    /\ ~g.exited
    /\ IF Validate(a) # "ok"
       THEN /\ est' = [est EXCEPT !.out = [kind |-> "ValueError", args |-> a]]
            /\ UNCHANGED g
       ELSE /\ g.safe_stream = NoSession => g.opened < MaxOpens
            /\ LET h == SafeGet(g, a.cfg)
                   cached == [est EXCEPT !.cache = @ \cup {CacheKey(a)}]
               IN /\ g' = [h EXCEPT !.last =
                             [op |-> "measure_distance", req |-> a.cfg,
                              ret |-> h.safe_stream.id,
                              on |-> h.safe_stream.cfg]]
                  /\ \E recorded \in {PlayAndRecordResult(
                         Recording(TotalFrames(a, h.safe_stream.cfg), echoes))} :
                     \E r \in {Estimate(a, recorded)} :
                        IF r.error # "none"
                        THEN est' = [cached EXCEPT
                                       !.out = [kind |-> r.error, args |-> a]]
                        ELSE LET s == Smoothed(cached, a, r.distance_m)
                             IN est' = [s.est EXCEPT !.out =
                                   [kind |-> "result", args |-> a,
                                    echoes |-> echoes,
                                    lag_samples |-> r.lag_samples,
                                    distance_m |-> r.distance_m,
                                    smoothed_distance_m |->
                                        s.smoothed_distance_m]]
    /\ UNCHANGED <<streamVars, dsp, lat>>

\* set_smoothing_buffer_size(size)
set_smoothing_buffer_size(size) ==
    /\ est' = [Resized(est, size) EXCEPT
                  !.out = [kind |-> "resized", size |-> size]]
    /\ UNCHANGED <<streamVars, g, dsp, lat>>

\* clear_distance_smoothing()
clear_distance_smoothing ==
    /\ est' = [est EXCEPT !.buffer = <<>>, !.hist = <<>>,
                          !.out = [kind |-> "cleared"]]
    /\ UNCHANGED <<streamVars, g, dsp, lat>>

\* clear_chirp_cache()
clear_chirp_cache ==
    /\ est' = [est EXCEPT !.cache = {}, !.out = [kind |-> "cache cleared"]]
    /\ UNCHANGED <<streamVars, g, dsp, lat>>

\* The arguments of the measurements: a three-sample chirp at the default
\* sample rate, 59 samples recorded after it, targets up to 0.2 m in air.
BaseArgs ==
    [cfg |-> DefaultCfg, medium |-> "air",
     duration |-> Frac(3, DefaultSampleRate),
     start_freq |-> FromInt(2000), end_freq |-> FromInt(20000),
     amplitude |-> Frac(8, 10), system_latency_s |-> FZero,
     min_distance_m |-> FZero, max_distance_m |-> Frac(2, 10),
     extra_record_seconds |-> Frac(59, DefaultSampleRate),
     enable_smoothing |-> TRUE, filter_size |-> DefaultMaxlen]

\* The same in water, targets up to 0.85 m.
WaterArgs ==
    [BaseArgs EXCEPT !.medium = "water", !.max_distance_m = Frac(85, 100)]

\* What the microphone hears: nothing, or an echo at sample 55.
EchoSets == { {}, {<<55, 10>>} }

\* Measurements of two sessions with every filter size, and with smoothing
\* disabled.
SmoothingInputs ==
    ({[BaseArgs EXCEPT !.filter_size = n] : n \in 0 .. MaxFilterSize}
         \cup {[BaseArgs EXCEPT !.enable_smoothing = FALSE]}) \X EchoSets
    \cup {<<WaterArgs, {}>>}

NextSmoothing ==
    \/ \E i \in SmoothingInputs : measure_distance(i[1], i[2])
    \/ \E size \in 0 .. MaxFilterSize : set_smoothing_buffer_size(size)
    \/ clear_distance_smoothing

SpecSmoothing == Init /\ [][NextSmoothing]_vars

\* A longer recording (120 samples after the chirp) and targets up to 0.4 m:
\* the search window spans the lags 50 .. 110.
WideArgs ==
    [BaseArgs EXCEPT !.extra_record_seconds = Frac(120, DefaultSampleRate),
                     !.max_distance_m = Frac(4, 10), !.filter_size = 1]

\* Calls that pass validation: smoothed ones; ones with filter_size 1 and 0,
\* with smoothing disabled, with another chirp amplitude, with another audio
\* configuration, with the record window computed from max_distance_m; and
\* wide ones with a min_distance_m of 56 samples of round trip and with a
\* system latency of 70 samples.
ValidInputs ==
    {BaseArgs, [BaseArgs EXCEPT !.filter_size = 1]} \X EchoSets
    \cup {[BaseArgs EXCEPT !.filter_size = 0],
          [BaseArgs EXCEPT !.enable_smoothing = FALSE],
          [WideArgs EXCEPT !.min_distance_m = Frac(343 * 56, 2 * 48000)]}
             \X {{<<55, 10>>}}
    \cup {[BaseArgs EXCEPT !.filter_size = 1, !.amplitude = Frac(5, 10)],
          [BaseArgs EXCEPT !.filter_size = 1,
                           !.cfg = [DefaultCfg EXCEPT !.rec_device = 1]],
          [BaseArgs EXCEPT !.filter_size = 1,
                           !.extra_record_seconds = None],
          [WideArgs EXCEPT !.system_latency_s = Frac(70, DefaultSampleRate)]}
             \X {{}}
    \cup {WideArgs} \X {{}, {<<55, 9>>, <<111, 10>>}}

\* Calls with one invalid argument each.
InvalidArgs ==
    {[BaseArgs EXCEPT !.duration = FZero],
     [BaseArgs EXCEPT !.duration = FromInt(2)],
     [BaseArgs EXCEPT !.start_freq = FZero],
     [BaseArgs EXCEPT !.end_freq = FromInt(-1)],
     [BaseArgs EXCEPT !.start_freq = FromInt(20000)],
     [BaseArgs EXCEPT !.amplitude = Frac(11, 10)],
     [BaseArgs EXCEPT !.amplitude = Frac(-1, 10)],
     [BaseArgs EXCEPT !.filter_size = -1],
     [BaseArgs EXCEPT !.min_distance_m = Frac(-1, 10)],
     [BaseArgs EXCEPT !.max_distance_m = FZero],
     [BaseArgs EXCEPT !.min_distance_m = Frac(2, 10)],
     [BaseArgs EXCEPT !.extra_record_seconds = Frac(-1, 100)]}

NextDistance ==
    \/ \E i \in ValidInputs : measure_distance(i[1], i[2])
    \/ \E a \in InvalidArgs : measure_distance(a, {<<55, 10>>})
    \/ clear_distance_smoothing
    \/ clear_chirp_cache

SpecDistance == Init /\ [][NextDistance]_vars

\* A still longer recording (180 samples after the chirp) and targets up to
\* 0.6 m: the search window spans the lags 50 .. 166 and has room for three
\* peaks 50 samples apart.
WiderArgs ==
    [WideArgs EXCEPT !.extra_record_seconds = Frac(180, DefaultSampleRate),
                     !.max_distance_m = Frac(6, 10)]

\* Amplitudes of the echoes in the ranging window; 0 is no echo.
EchoAmplitudes == {0, 2, 7, 8, 9, 10}

\* Unsmoothed calls, with a chirp amplitude of 0.8 and of 0.5, on recordings
\* with up to two echoes, 56 samples apart, of every pair of amplitudes; with
\* an echo of negative correlation; with three echoes; and, with a system
\* latency of 71 and of 10 samples, with a search window that starts at the
\* end of the correlation.
RangingInputs ==
    {<<a, {e \in {<<55, p>>, <<111, q>>} : e[2] # 0}>> :
        a \in {WideArgs, [WideArgs EXCEPT !.amplitude = Frac(5, 10)]},
        p \in EchoAmplitudes, q \in EchoAmplitudes}
    \cup {WideArgs} \X {{<<55, -5>>}}
    \cup {WiderArgs} \X {{<<55, 9>>, <<111, 7>>, <<167, 10>>},
                         {<<55, 85>>, <<111, 90>>, <<167, 100>>},
                         {<<55, 2>>, <<111, 10>>, <<167, 7>>}}
    \cup {[WideArgs EXCEPT !.system_latency_s = Frac(71, DefaultSampleRate)],
          [BaseArgs EXCEPT !.system_latency_s = Frac(10, DefaultSampleRate),
                           !.filter_size = 1]}
             \X {{}, {<<55, 10>>}}

NextRanging ==
    \/ \E i \in RangingInputs : measure_distance(i[1], i[2])
    \/ clear_chirp_cache

SpecRanging == Init /\ [][NextRanging]_vars

\* ------------------------------------------------ utils/latency.py
\* Latencies are exact fractions of a second.
\* kept latencies per aggregation
MaxKept == 4

\* abs(x)
FAbs(x) == IF x[1] < 0 THEN <<-x[1], x[2]>> ELSE x

\* np.median of a non-empty array: the middle value of the sorted array, or
\* the mean of the two middle values.
Median(s) ==
    LET n == Len(s)
    IN CHOOSE med \in
           {IF n % 2 = 1 THEN sorted[(n + 1) \div 2]
            ELSE FDiv(FAdd(sorted[n \div 2], sorted[n \div 2 + 1]),
                      FromInt(2)) :
               sorted \in {SortSeq(s, LAMBDA x, y : FLess(x, y))}} :
           TRUE

\* abs_dev = np.abs(arr - raw_median_s)
AbsDev(arr, raw_median_s) ==
    [i \in 1 .. Len(arr) |-> FAbs(FSub(arr[i], raw_median_s))]

\* (mutant) the samples within 3.5 x MAD are taken whatever the MAD.
UsedAlwaysMasked(arr, raw_median_s, mad_s) ==
    SelectSeq(arr, LAMBDA x :
        FLeq(FAbs(FSub(x, raw_median_s)), FMul(Frac(35, 10), mad_s)))

\* used, lines 173-177: with a positive MAD the samples within 3.5 x MAD of
\* the raw median, else all samples.
Used(arr, raw_median_s, mad_s) ==
    IF FLess(FZero, mad_s)
    THEN SelectSeq(arr, LAMBDA x :
             FLeq(FAbs(FSub(x, raw_median_s)), FMul(Frac(35, 10), mad_s)))
    ELSE arr

\* measure_latency, lines 165-198, on the kept latencies: the fields of the
\* returned dict that hold latencies.
Aggregate(latencies_s) ==
    CHOOSE res \in
        {[latency_seconds |-> Median(used),
          latencies_seconds |-> latencies_s,
          latencies_used_seconds |-> used,
          latency_raw_median_seconds |-> raw_median_s,
          latency_mad_seconds |-> mad_s] :
            raw_median_s \in {Median(latencies_s)},
            mad_s \in {Median(AbsDev(latencies_s, Median(latencies_s)))},
            used \in {Used(latencies_s, Median(latencies_s),
                           Median(AbsDev(latencies_s, Median(latencies_s))))}} :
        TRUE

\* _pick_latency_from_recording: max_latency_s = 0.005, min_latency_s =
\* 0.0005
MaxLatencyS == Frac(5, 1000)
MinLatencyS == Frac(5, 10000)
\* max(10, int(min_latency_s * sample_rate))
MinLagFloor == 10
\* max(3, int(max_latency_s * sample_rate))
MaxLagFloor == 3
\* noise_floor = med + 8.0 * mad
NoiseMadFactor == 8
\* find_peaks(corr_window, num_peaks=200, min_distance=10)
PickNumPeaks == 200
PickMinDistance == 10
\* strong_fraction = 0.005, in thousandths
StrongPerMille == 5

\* floor(x)
Floor(x) == x[1] \div x[2]

\* round(x) of Python: to the nearest integer, a tie to the even one.
Round(x) ==
    LET f == Floor(x)
        twice == FSub(FMul(FromInt(2), x), FromInt(2 * f))
    IN IF FLess(twice, FromInt(1)) THEN f
       ELSE IF FLess(FromInt(1), twice) THEN f + 1
       ELSE IF f % 2 = 0 THEN f ELSE f + 1

\* start_idx, line 25
PickStartIdx(ref_offset, sample_rate) ==
    ref_offset
        + Max(MinLagFloor, Trunc(FMul(MinLatencyS, FromInt(sample_rate))))

\* end_idx, lines 26-31
PickEndIdx(ref_offset, sample_rate, n) ==
    Min(n - 2,
        ref_offset
            + Max(MaxLagFloor, Trunc(FMul(MaxLatencyS, FromInt(sample_rate)))))

\* min(candidates, key=lambda t: t[0])[0]: the lowest index of the peaks.
LowestIndex(peaks) ==
    CHOOSE i \in {peaks[k][1] : k \in 1 .. Len(peaks)} :
        \A k \in 1 .. Len(peaks) : i <= peaks[k][1]

\* noise_floor of the window, lines 36-38
NoiseFloor(window) ==
    CHOOSE floor \in
        {FAdd(med, FMul(FromInt(NoiseMadFactor), Median(AbsDev(w, med)))) :
            w \in {[i \in 1 .. Len(window) |-> FromInt(window[i])]},
            med \in {Median([i \in 1 .. Len(window) |-> FromInt(window[i])])}} :
        TRUE

\* (mutant) the strongest peak of the window is taken, as in ranging.
StrongestInWindow(window) ==
    LET peaks == FindPeaks(window, PickNumPeaks, PickMinDistance).peaks
    IN IF Len(peaks) > 0 THEN peaks[1][1] ELSE ArgMax(window)

\* Lines 35-72 on a non-empty window: the index in the window of the peak
\* selected.
BestInWindow(window) ==
    CHOOSE best \in
        {LET max_peak == IF Len(peaks) > 0 THEN peaks[1][2]
                         ELSE window[ArgMax(window) + 1]
             candidates ==
                 SelectSeq(peaks, LAMBDA p :
                     /\ FLeq(threshold, FromInt(p[2]))
                     /\ 1000 * p[2] >= max_peak * StrongPerMille)
             candidates2 ==
                 SelectSeq(peaks, LAMBDA p : FLeq(threshold, FromInt(p[2])))
         IN IF Len(candidates) > 0 THEN LowestIndex(candidates)
            ELSE IF Len(candidates2) > 0 THEN LowestIndex(candidates2)
            ELSE ArgMax(window) :
            threshold \in {NoiseFloor(window)},
            peaks \in {FindPeaks(window, PickNumPeaks,
                                 PickMinDistance).peaks}} :
        TRUE

\* Lines 22-86 on the result of cross_correlation.  best_peak_idx is a local
\* of the function; the function returns the other fields.
PickOn(cc, ref_len, sample_rate) ==
    LET ref_offset == ref_len - 1
        start_idx == PickStartIdx(ref_offset, sample_rate)
        end_idx == PickEndIdx(ref_offset, sample_rate, Len(cc.corr))
    IN CHOOSE res \in
        {LET best_peak_idx ==
                 IF Len(corr_window.items) > 0
                 THEN start_idx + BestInWindow(corr_window.items)
                 ELSE ArgMax(cc.corr)
             refined == ParabolicInterpolate(cc.corr, best_peak_idx)
             refined_lag == FSub(refined[1], FromInt(ref_offset))
         IN [latency_seconds |-> FDiv(refined_lag, FromInt(sample_rate)),
             lag_samples |-> Round(refined_lag),
             peak |-> refined[2],
             global_lag |-> cc.peak_idx,
             global_peak |-> cc.peak,
             corr_len |-> Len(cc.corr),
             best_peak_idx |-> best_peak_idx] :
            corr_window \in {PySlice(cc.corr, start_idx, end_idx)}} :
        TRUE

\* _pick_latency_from_recording(recorded, chirp_ref, sample_rate)
PickLatency(recorded, chirp_ref, sample_rate) ==
    CHOOSE res \in
        {PickOn(cc, Len(chirp_ref), sample_rate) :
            cc \in {CrossCorrelation(chirp_ref, recorded)}} :
        TRUE

\* What the microphone hears between the echoes: nothing, a constant level
\* of 1, or samples alternating between 0 and 2.
Backgrounds == {"silence", "level", "noise"}

\* The recording of n samples with the background bg and the samples of
\* echoes, a set of <<0-based sample index, value>>.
NoisyRecording(n, bg, echoes) ==
    SubSeq([i \in 1 .. n |->
               IF \E e \in echoes : e[1] = i - 1
               THEN (CHOOSE e \in echoes : e[1] = i - 1)[2]
               ELSE IF bg = "level" THEN 1
               ELSE IF bg = "noise" THEN 2 * ((i - 1) % 2)
               ELSE 0], 1, n)

\* Amplitudes of the echoes in a calibration recording; 0 is no echo.
PickAmplitudes == {0, 1, 10, 10000}

\* Recordings with echoes at the samples 13, 20, 27, 32 (the lags 10, 17,
\* 24, 29 of a three-sample reference) and 36 (the lag 33), on each
\* background: 40 samples at 6000 Hz (the window is the lags 10 .. 29), 20
\* samples at 6000 Hz (the window is cut by the end of the correlation), 40
\* samples at 1000 Hz and 8 samples at 6000 Hz (the window is empty).
PickInputs ==
    {[recorded |-> NoisyRecording(v[1], bg,
                      {e \in {<<13, p1>>, <<20, p2>>, <<27, p3>>, <<32, p4>>,
                              <<36, p5>>} : e[2] # 0 /\ e[1] < v[1]}),
      chirp_ref |-> <<0, 1, 0>>,
      sample_rate |-> v[2]] :
        v \in {<<40, 6000>>, <<20, 6000>>, <<40, 1000>>, <<8, 6000>>},
        bg \in Backgrounds,
        p1 \in PickAmplitudes, p2 \in {0, 10}, p3 \in PickAmplitudes,
        p4 \in PickAmplitudes, p5 \in {0, 10000}}

\* _pick_latency_from_recording applied to a recording.
PickLatencyApply ==
    /\ lat = LatInit
    /\ \E in \in PickInputs :
          lat' = [LatInit EXCEPT
                     !.out = [kind |-> "picked", in |-> in,
                              res |-> PickLatency(in.recorded, in.chirp_ref,
                                                  in.sample_rate)]]
    /\ UNCHANGED <<streamVars, g, est, dsp>>

NextPick == PickLatencyApply

SpecPick == Init /\ [][NextPick]_vars

\* Kept latencies, in milliseconds.
LatencyValues == {1, 2, 3, 10, 30}

KeptInputs == Arrays({Frac(v, 1000) : v \in LatencyValues}, 1, MaxKept)

\* The aggregation of measure_latency applied to a list of kept latencies.
AggregateApply ==
    /\ lat = LatInit
    /\ \E arr \in KeptInputs :
          lat' = [LatInit EXCEPT
                     !.out = [kind |-> "aggregated", res |-> Aggregate(arr)]]
    /\ UNCHANGED <<streamVars, g, est, dsp>>

NextAggregate == AggregateApply

SpecAggregate == Init /\ [][NextAggregate]_vars

\* repeats of the calibrations made
MaxRepeats == 3

\* extra_record_seconds = 0.1
LatencyExtraRecordSeconds == Frac(1, 10)

\* get_global_stream(cfg) of io/audio.py from its call to its return: the
\* stored session if its signature is that of cfg, else the old session is
\* closed and a new one is opened and stored.
AudioGet(gg, cfg) ==
    IF gg.audio_stream = NoSession \/ gg.audio_sig # CfgSignature(cfg)
    THEN LET new == Open(gg, "audio", cfg)
         IN [gg EXCEPT !.audio_stream = [id |-> new.id, cfg |-> new.cfg],
                       !.audio_sig = CfgSignature(cfg),
                       !.hw = OldSessionClosed(gg) \cup {new},
                       !.opened = gg.opened + 1]
    ELSE gg

\* How a play_and_record of io/audio.py ends: with the recording, with the
\* TimeoutError of line 170 or with the RuntimeError of line 163.
Outcomes == {"recorded", "TimeoutError", "RuntimeError"}

\* The entry of lat.log for a call play_and_record(signal, cfg, extra): the
\* signal played (its kind and its length), the session played on, how the
\* call ended and the latency picked from its recording, if any.
Played(kind, frames, extra, gg, outcome) ==
    [signal |-> kind, frames |-> frames, extra |-> extra,
     on |-> gg.audio_stream.id, outcome |-> outcome, latency |-> None]

\* Lines 114-115: discard >= repeats becomes max(0, repeats - 1).
ClampDiscard(repeats, discard) ==
    IF discard >= repeats THEN Max(0, repeats - 1) ELSE discard

\* measure_latency(cfg_audio, cfg_chirp, repeats=, discard=), lines 96-115:
\* the chirps are generated, repeats and discard are checked and discard is
\* clamped; the function goes on to the warm-up.
measure_latency(a) ==
    /\ lat.pc = "idle"
    /\ g.pc = "idle"
    /\ ~g.exited
    /\ IF a.repeats < 1 \/ a.discard < 0
       THEN lat' = [LatInit EXCEPT !.args = a, !.out = [kind |-> "ValueError"]]
       ELSE lat' = [LatInit EXCEPT
                       !.pc = "warmup", !.args = a, !.repeats = a.repeats,
                       !.discard = ClampDiscard(a.repeats, a.discard)]
    /\ UNCHANGED <<streamVars, g, est, dsp>>

\* (mutant) an exception of the warm-up ends the call.
WarmupRaises(outcome) == IF outcome = "recorded" THEN "cycle" ELSE "idle"

\* Lines 119-125, try / except Exception: pass: where measure_latency goes on
\* after the warm-up call has ended with outcome.
AfterWarmup(outcome) == "cycle"

\* Lines 118-125: play_and_record of frames_per_buffer zeros with no extra
\* recording; an exception of the call is swallowed.
Warmup(outcome) ==
    /\ lat.pc = "warmup"
    /\ AudioGet(g, lat.args.cfg) # g => g.opened < MaxOpens
    /\ \E h \in {AudioGet(g, lat.args.cfg)} :
          /\ g' = h
          /\ lat' = [lat EXCEPT
                        !.pc = AfterWarmup(outcome),
                        !.log = Append(@, Played("silence", FramesPerBuffer,
                                                 FZero, h, outcome))]
    /\ UNCHANGED <<streamVars, est, dsp>>

\* Lines 138-198, one pass of the loop with the microphone hearing echoes:
\* the chirp is played and recorded with 0.1 s more, the latency is picked
\* and is kept if i >= discard; after the last pass the kept latencies are
\* aggregated and returned.  An exception of play_and_record ends the call.
Cycle(outcome, echoes) ==
    /\ lat.pc = "cycle"
    /\ AudioGet(g, lat.args.cfg) # g => g.opened < MaxOpens
    /\ \E h \in {AudioGet(g, lat.args.cfg)} :
       LET total == ChirpLen(lat.args)
                      + Trunc(FMul(LatencyExtraRecordSeconds,
                                   FromInt(SampleRate(h.audio_stream.cfg))))
           entry == Played("chirp", ChirpLen(lat.args),
                           LatencyExtraRecordSeconds, h, outcome)
       IN /\ g' = h
          /\ IF outcome # "recorded"
             THEN lat' = [lat EXCEPT !.pc = "idle",
                                     !.log = Append(@, entry),
                                     !.out = [kind |-> outcome]]
             ELSE \E r \in {PickLatency(Recording(total, echoes),
                                        ChirpRef(lat.args),
                                        SampleRate(lat.args.cfg))} :
                  \E kept \in {IF lat.i >= lat.discard
                               THEN Append(lat.latencies, r.latency_seconds)
                               ELSE lat.latencies} :
                     lat' = [lat EXCEPT
                         !.i = @ + 1,
                         !.latencies = kept,
                         !.log = Append(@, [entry EXCEPT !.latency =
                                               r.latency_seconds]),
                         !.pc = IF lat.i + 1 < lat.repeats THEN "cycle"
                                ELSE "idle",
                         !.out = IF lat.i + 1 < lat.repeats THEN NoOutcome
                                 ELSE [kind |-> "result",
                                       res |-> Aggregate(kept),
                                       repeats |-> lat.repeats,
                                       discard |-> lat.discard]]
    /\ UNCHANGED <<streamVars, est, dsp>>

\* The calibrations made: at 4000 Hz with a three-sample chirp, on the
\* default latency setting or on another one.
LatencyArgs ==
    {[cfg |-> [cfg EXCEPT !.latency = l], duration |-> Frac(3, LowSampleRate),
      start_freq |-> FromInt(2000), end_freq |-> FromInt(20000),
      amplitude |-> Frac(8, 10), repeats |-> repeats, discard |-> discard] :
        cfg \in {[DefaultCfg EXCEPT !.sample_rate = 2]}, l \in {0, 1},
        repeats \in 0 .. MaxRepeats, discard \in (0 - 1) .. (MaxRepeats + 1)}

\* One echo per recording, at the lag 10 or 17.
LatencyEchoes == {{<<13, 10>>}, {<<20, 10>>}}

NextLatency ==
    \/ \E a \in LatencyArgs : measure_latency(a)
    \/ \E outcome \in Outcomes : Warmup(outcome)
    \/ \E outcome \in Outcomes, echoes \in LatencyEchoes :
          Cycle(outcome, echoes)

SpecLatency == Init /\ [][NextLatency]_vars

\* ================================================================ claims
InCall(c) == c.pc \in {"arm", "arm_cs", "wait", "to", "to_cs", "retry_sleep"}

\* C1: a job in the slot is never displaced by another job, and a call that
\* finds the slot occupied when it takes the lock ends at once with the busy
\* error, leaving the slot and the in-flight job dict as they were; a call
\* that finds it free arms its own fresh job.
C1_BusyFailsFast ==
    [][/\ (job # NoJob /\ job' # job => job' = NoJob)
       /\ \A t \in Callers :
            (caller[t].pc = "arm_cs" /\ caller'[t].pc # "arm_cs") =>
                IF job # NoJob
                THEN /\ caller'[t].pc = "idle"
                     /\ caller'[t].result = "Busy"
                     /\ job' = job
                     /\ heap'[job] = heap[job]
                ELSE /\ caller'[t].pc = "wait"
                     /\ job' # NoJob
                     /\ caller'[t].job = job']_vars

\* C1 witness: one thread got the busy error while the other thread's job is
\* in the slot and being waited for.
C1_Witness ==
    \E t, u \in Callers :
        /\ t # u
        /\ caller[t].result = "Busy"
        /\ caller[u].pc = "wait"
        /\ job # NoJob
        /\ caller[u].job = job

\* C2: once done.wait has timed out the call only takes the lock, clears the
\* slot and raises TimeoutError: it returns no recording, arms nothing more;
\* and a wait on a job that is not done is left only by timing out.
C2_TimeoutClearsAndRaises ==
    [][\A t \in Callers :
         /\ (caller[t].pc = "wait" /\ ~heap[caller[t].job].done
                 /\ caller'[t].pc # "wait") => caller'[t].pc = "to"
         /\ (caller[t].pc = "to" /\ caller'[t] # caller[t]) =>
                (caller'[t].pc = "to_cs" /\ caller'[t].armed = caller[t].armed)
         /\ (caller[t].pc = "to_cs" /\ caller'[t] # caller[t]) =>
                /\ job' = NoJob
                /\ caller'[t].pc = "idle"
                /\ caller'[t].result = "Timeout"
                /\ caller'[t].recorded = <<>>]_vars

\* C2 witness: a call has ended with the timeout error and the slot is empty.
C2_Witness ==
    \E t \in Callers : caller[t].result = "Timeout" /\ job = NoJob

\* C3 (as claimed): after an xrun on the first job the call arms a second
\* job (stated for a retry made once the callback has left the first job).
C3_RetryAlwaysArms ==
    [][\A t \in Callers :
         (caller[t].pc = "arm_cs" /\ caller[t].attempt = 1 /\ cb.pc = "idle"
             /\ caller'[t].pc # "arm_cs") =>
                (caller'[t].pc = "wait" /\ caller'[t].armed = 2)]_vars

\* C3 (amended): a first job that completes with its xrun flag set is
\* followed by exactly one further arming attempt, made with the call's play
\* buffer and a fresh record buffer, cursor, event and xrun flag; the attempt
\* arms the second job when the slot is free and raises the busy error when
\* it is occupied; a call arms at most two jobs and attempts the second only
\* after an xrun on the first.
C3_RetryOnce ==
    /\ [](\A t \in Callers :
            LET c == caller[t] IN
            /\ c.armed <= 2
            /\ c.attempt \in {0, 1}
            /\ (c.armed = 2 \/ c.attempt = 1) => c.first_xrun
            /\ c.armed <= c.attempt + 1
            /\ c.pc = "wait" =>
                  /\ c.armed = c.attempt + 1
                  /\ heap[c.job].play = PlayBuf(c.priming_frames, c.len, c.extra))
    /\ [][\A t \in Callers :
            LET c == caller[t]
                d == caller'[t]
            IN
            /\ (c.pc = "wait" /\ heap[c.job].done /\ d.pc # "wait") =>
                  IF heap[c.job].had_xrun /\ c.attempt = 0
                  THEN d.pc = "retry_sleep" /\ d.armed = 1
                  ELSE d.pc = "idle"
            /\ (c.pc = "retry_sleep" /\ d.pc # "retry_sleep") =>
                  (d.pc = "arm" /\ d.attempt = 1 /\ d.armed = 1)
            /\ (c.pc = "arm_cs" /\ d.pc # "arm_cs") =>
                  IF job # NoJob
                  THEN d.pc = "idle" /\ d.result = "Busy"
                  ELSE /\ d.pc = "wait"
                       /\ d.armed = c.armed + 1
                       /\ heap'[d.job].rec = Zeros(heap'[d.job].total)
                       /\ heap'[d.job].idx = 0
                       /\ ~heap'[d.job].done
                       /\ ~heap'[d.job].had_xrun]_vars

\* C3 witness: the second job of a call is armed after an xrun on the first.
C3_Witness ==
    \E t \in Callers :
        /\ caller[t].pc = "wait"
        /\ caller[t].armed = 2
        /\ caller[t].first_xrun
        /\ job = caller[t].job

\* C4 (as claimed): a call whose retry job completes with its xrun flag set
\* does not return a recording.
C4_RetryXrunFails ==
    [][\A t \in Callers :
         (caller[t].pc = "wait" /\ caller[t].attempt = 1
             /\ heap[caller[t].job].done /\ heap[caller[t].job].had_xrun) =>
                caller'[t].result # "Recorded"]_vars

\* C5: a successful return sets the cooldown deadline, and a call that found
\* a deadline pending at entry is past its pacing sleep (arming, waiting,
\* retrying) only once that deadline has elapsed.
C5_CooldownRespected ==
    /\ [](\A t \in Callers : InCall(caller[t]) => caller[t].entry_deadline = 0)
    /\ [][\A t \in Callers :
            (caller[t].pc = "wait" /\ caller'[t].result = "Recorded") =>
                next_allowed_time' = CooldownTicks]_vars

\* C5 witness: a call that entered during the cooldown has armed its job.
C5_Witness ==
    \E t \in Callers :
        caller[t].pc = "wait" /\ caller[t].paced /\ job = caller[t].job

\* C6 (as claimed): the first job armed after the stream was (re)opened has
\* 3 priming blocks and every later job on that stream has 1.
C6_FirstJobThreeLaterOne ==
    \A j \in JobIds :
        /\ heap[j].ord = 1 => heap[j].blocks = FirstPrimingBlocks
        /\ heap[j].ord > 1 => heap[j].blocks = LaterPrimingBlocks

\* C6 (amended): a call that chooses its priming when no play_and_record
\* call has returned a recording since the stream was (re)opened prefixes its
\* jobs (the retry included) with 3 blocks of silence, any other call with 1;
\* the returned recording has len(signal) + extra frames, frame i carrying
\* the tag of signal frame i and the extra frames the tag of silence.
C6_PrimingStripped ==
    /\ [](\A t \in Callers :
            LET c == caller[t] IN
            InCall(c) =>
              /\ c.priming_frames = FramesPerBuffer *
                    (IF c.first_use THEN FirstPrimingBlocks
                                    ELSE LaterPrimingBlocks)
              /\ c.job # NoJob =>
                    /\ heap[c.job].blocks * FramesPerBuffer = c.priming_frames
                    /\ heap[c.job].total = c.priming_frames + c.len + c.extra
                    /\ \A i \in 1 .. c.priming_frames : heap[c.job].play[i] = 0)
    /\ [][\A t \in Callers :
            (caller[t].pc = "wait" /\ caller'[t].result = "Recorded") =>
                /\ Len(caller'[t].recorded) = caller[t].len + caller[t].extra
                /\ \A i \in 1 .. caller[t].len : caller'[t].recorded[i] = i
                /\ \A i \in (caller[t].len + 1) .. Len(caller'[t].recorded) :
                       caller'[t].recorded[i] = 0]_vars

\* C6 witness: the second successful call since opening, primed with one
\* block, has returned a two-frame signal with one extra frame.
C6_Witness ==
    \E t \in Callers :
        /\ caller[t].result = "Recorded"
        /\ caller[t].recorded = <<1, 2, 0>>
        /\ jobs_run = 2
        /\ armed_since_open >= 2

\* C7 (as claimed): a callback invocation never has to wait for something a
\* caller thread holds: when it reaches "with self._job_lock" to clear the
\* slot, no caller holds the lock.
C7_CallbackNeverWaits ==
    ~(cb.pc = "clear" /\ job_lock \in Callers)

AudioSessions(hw) == {h \in hw : h.mod = "audio"}

GotStream(op) == op \in {"get_global_stream", "measure_latency"}

\* C8: get_global_stream of io/audio.py returns the stored session, untouched,
\* exactly when the requested configuration equals that session's field for
\* field; otherwise the old session is closed before the new one is opened
\* (the module never has two sessions open, and none while it opens one);
\* the stored signature is that of the stored session's configuration, and
\* the session returned is the stored one, with the requested configuration.
C8_KeyedSingleton ==
    /\ [](/\ Cardinality(AudioSessions(g.hw)) <= 1
          /\ g.pc = "opening" => AudioSessions(g.hw) = {}
          /\ (g.pc = "idle" /\ g.audio_stream # NoSession) =>
                /\ g.audio_sig = CfgSignature(g.audio_stream.cfg)
                /\ AudioSessions(g.hw) = {[id |-> g.audio_stream.id,
                                          cfg |-> g.audio_stream.cfg,
                                          mod |-> "audio"]}
          /\ GotStream(g.last.op) =>
                /\ g.audio_stream.id = g.last.ret
                /\ g.audio_stream.cfg = g.last.req
                /\ g.audio_sig = CfgSignature(g.last.req))
    /\ [][/\ (g.pc = "idle" /\ g'.pc = "idle" /\ GotStream(g'.last.op)
                 /\ g' # g) =>
                /\ g.audio_stream # NoSession
                /\ g.audio_stream.cfg = g'.last.req
                /\ g'.audio_stream = g.audio_stream
                /\ g'.hw = g.hw
          /\ (g.pc = "idle" /\ g'.pc = "opening") =>
                (g.audio_stream = NoSession \/ g.audio_stream.cfg # g'.req)
          /\ (g.pc = "opening" /\ g'.pc = "idle") =>
                /\ g'.audio_stream.cfg = g.req
                /\ g'.audio_stream.id \notin {h.id : h \in g.hw}]_vars

\* C8 witness: a call with another configuration has replaced the session:
\* the second session opened is the only one open and is the one returned.
C8_Witness ==
    /\ g.last.op = "get_global_stream"
    /\ g.opened = 2
    /\ g.last.ret = 2
    /\ g.last.req # DefaultCfg
    /\ Cardinality(g.hw) = 1

\* C9 (as claimed): a measure_distance call plays and records on a session
\* opened with the configuration it was called with.
C9_ConfigChangeInvalidates ==
    g.last.op = "measure_distance" => g.last.on = g.last.req

\* C10 (as claimed): at most one hardware session is open in the process,
\* and none after close_global_stream or process exit.
C10_ProcessWideSingleton ==
    /\ Cardinality(g.hw) <= 1
    /\ g.last.op \in {"close_global_stream", "atexit"} => g.hw = {}

\* C11: every play_and_record call eventually ends, by returning or raising,
\* whatever the driver callback does (it may never be invoked again, and the
\* stream may be closed with the job in flight).
C11_CallEnds ==
    \A t \in Callers : (caller[t].pc # "idle") ~> (caller[t].pc = "idle")

\* C11 witness: the stream was closed with a job in flight and the call
\* waiting for it has ended with the timeout error.
C11_Witness ==
    /\ ~stream
    /\ \E t \in Callers : caller[t].result = "Timeout"
    /\ \A t \in Callers : caller[t].pc = "idle"

\* C17 (as claimed): find_peaks returns, for every array, num_peaks and
\* min_distance, at most num_peaks pairs with strictly descending values, all
\* > 0, indices pairwise at least min_distance apart, stopping once the
\* remaining maximum is <= 0, the input left as it was, and the example's
\* peaks.
C17_StrictlyDescending ==
    dsp.op = "find_peaks" =>
        LET p == dsp.res.peaks IN
        /\ dsp.res.error = "none"
        /\ Len(p) <= Max(dsp.num, 0)
        /\ \A i \in 1 .. Len(p) : p[i][2] > 0
        /\ \A i, j \in 1 .. Len(p) : i < j => p[i][2] > p[j][2]
        /\ \A i, j \in 1 .. Len(p) :
              i < j => Abs(p[i][1] - p[j][1]) >= dsp.md
        /\ Len(p) < dsp.num =>
              \A k \in 1 .. Len(dsp.res.copy) : dsp.res.copy[k] <= 0
        /\ dsp.res.input = dsp.corr
        /\ (dsp.corr = ExamplePeaks /\ dsp.num = 3 /\ dsp.md = 1) =>
              p = << <<1, 10>>, <<7, 8>>, <<4, 5>> >>

\* C17 (amended): on a non-empty array find_peaks returns at most num_peaks
\* pairs (index, value of the input at that index) with non-increasing
\* values, all > 0, indices pairwise at least min_distance apart, stopping
\* once the remaining maximum is <= 0, the input left as it was, and the
\* example's peaks; on an empty array it raises for num_peaks >= 1.
C17_FindPeaks ==
    dsp.op = "find_peaks" =>
        LET p == dsp.res.peaks IN
        /\ dsp.res.error = "ValueError" <=> (dsp.corr = <<>> /\ dsp.num >= 1)
        /\ Len(p) <= Max(dsp.num, 0)
        /\ \A i \in 1 .. Len(p) :
              /\ p[i][1] \in 0 .. (Len(dsp.corr) - 1)
              /\ p[i][2] = dsp.corr[p[i][1] + 1]
              /\ p[i][2] > 0
        /\ \A i, j \in 1 .. Len(p) : i < j => p[i][2] >= p[j][2]
        /\ \A i, j \in 1 .. Len(p) :
              i < j => Abs(p[i][1] - p[j][1]) >= dsp.md
        /\ (dsp.res.error = "none" /\ Len(p) < dsp.num) =>
              \A k \in 1 .. Len(dsp.res.copy) : dsp.res.copy[k] <= 0
        /\ dsp.res.input = dsp.corr
        /\ (dsp.corr = ExamplePeaks /\ dsp.num = 3 /\ dsp.md = 1) =>
              p = << <<1, 10>>, <<7, 8>>, <<4, 5>> >>

\* C17 witness: the example of the unit test has been evaluated.
C17_Witness ==
    /\ dsp.op = "find_peaks"
    /\ dsp.corr = ExamplePeaks
    /\ dsp.num = 3
    /\ dsp.md = 1
    /\ dsp.res.peaks = << <<1, 10>>, <<7, 8>>, <<4, 5>> >>

\* The recording of n samples that is zero but for ref at offset s.
Embed(ref, s, n) ==
    [i \in 1 .. n |-> IF s < i /\ i <= s + Len(ref) THEN ref[i - s] ELSE 0]

NonZero(a) == \E i \in 1 .. Len(a) : a[i] # 0

\* C18: the correlation array has len(recording) + len(reference) - 1
\* samples, and for a reference (with a non-zero sample, so that its offset
\* is defined) embedded at offset s in an otherwise zero recording the peak
\* index is s.
C18_PeakAtOffset ==
    dsp.op = "cross_correlation" =>
        /\ Len(dsp.res.corr) = Len(dsp.corr) + Len(dsp.ref) - 1
        /\ \A s \in 0 .. (Len(dsp.corr) - Len(dsp.ref)) :
              (NonZero(dsp.ref) /\ dsp.corr = Embed(dsp.ref, s, Len(dsp.corr)))
                  => dsp.res.peak_idx = s

\* C18 witness: a two-sample reference found at offset 2 of a four-sample
\* recording.
C18_Witness ==
    /\ dsp.op = "cross_correlation"
    /\ dsp.ref = <<1, -1>>
    /\ dsp.corr = <<0, 0, 1, -1>>
    /\ dsp.res.peak_idx = 2

\* C19: parabolic_interpolate returns the unrefined index and value when the
\* curvature denominator is zero; at index 0 and at the last index it gives
\* what it gives on the array extended by a copy of the centre value; and
\* the two examples of the unit test.
C19_Parabolic ==
    dsp.op = "parabolic_interpolate" =>
        LET corr == dsp.corr
            index == dsp.num
            c == corr[index + 1]
            l == IF index = 0 THEN c ELSE corr[index]
            r == IF index = Len(corr) - 1 THEN c ELSE corr[index + 2]
        IN
        /\ (l - 2 * c + r = 0) => dsp.res = <<FromInt(index), FromInt(c)>>
        /\ index = 0 =>
              LET e == ParabolicInterpolate(<<c>> \o corr, 1)
              IN dsp.res = <<FSub(e[1], FromInt(1)), e[2]>>
        /\ index = Len(corr) - 1 =>
              dsp.res = ParabolicInterpolate(corr \o <<c>>, index)
        /\ (corr = ExampleSymmetric /\ index = 2) =>
              dsp.res = <<FromInt(2), FromInt(10)>>
        /\ (corr = ExampleFlatTop /\ index = 1) =>
              /\ dsp.res[1] = <<3, 2>>
              /\ ~FLess(dsp.res[2], FromInt(2))

\* C19 witness: the flat-topped example refined to index 3/2, value 9/4.
C19_Witness ==
    /\ dsp.op = "parabolic_interpolate"
    /\ dsp.corr = ExampleFlatTop
    /\ dsp.num = 1
    /\ dsp.res = << <<3, 2>>, <<9, 4>> >>

InvalidArgument(a) ==
    \/ FLeq(a.duration, FZero)
    \/ FLess(FromInt(1), a.duration)
    \/ FLeq(a.start_freq, FZero)
    \/ FLeq(a.end_freq, FZero)
    \/ FLeq(a.end_freq, a.start_freq)
    \/ FLess(a.amplitude, FZero)
    \/ FLess(FromInt(1), a.amplitude)
    \/ a.filter_size < 0
    \/ FLeq(a.max_distance_m, a.min_distance_m)
    \/ (a.extra_record_seconds # None
           /\ FLess(a.extra_record_seconds, FZero))

\* C12: a measure_distance call with an invalid argument raises a validation
\* error, and no session is opened, no job is armed and the smoothing buffer
\* and the chirp cache are as they were.
C12_ValidationBeforeIO ==
    [][(est'.out.kind \in {"result", "ValueError"}
           /\ InvalidArgument(est'.out.args)) =>
          /\ est'.out.kind = "ValueError"
          /\ g' = g
          /\ job' = job
          /\ stream' = stream
          /\ est'.buffer = est.buffer
          /\ est'.maxlen = est.maxlen
          /\ est'.cache = est.cache]_vars

\* C12 witness: the first call of the process had an invalid argument: no
\* session is open and nothing is cached.
C12_Witness ==
    /\ est.out.kind = "ValueError"
    /\ InvalidArgument(est.out.args)
    /\ g.hw = {}
    /\ g.opened = 0
    /\ est.cache = {}

\* The distance the call returns when it is the first call after import.
FirstCallDistance(a, echoes) ==
    Estimate(a, Recording(TotalFrames(a, a.cfg), echoes)).distance_m

C24_SingleCursor ==
    /\ [](\A j \in JobIds :
            LET h == heap[j] IN
            h.total > 0 =>
              /\ h.idx <= h.total
              /\ Len(h.rec) = h.total
              /\ Len(h.play) = h.total
              /\ \A i \in 1 .. h.total :
                    h.rec[i] = IF i <= h.idx THEN h.play[i] ELSE 0
              /\ h.done => h.idx = h.total
              /\ (h.idx = h.total /\ ~h.done) =>
                    (cb.pc = "signal" /\ cb.job = j))
    /\ [][/\ \A j \in JobIds :
               (heap[j].total > 0 /\ heap'[j].total > 0) =>
                  /\ heap'[j].idx >= heap[j].idx
                  /\ heap'[j].idx - heap[j].idx <= FramesPerBuffer
                  /\ \A i \in 1 .. heap[j].idx :
                        heap'[j].rec[i] = heap[j].rec[i]
          /\ \A t \in Callers :
               (caller[t].pc = "wait" /\ caller'[t].pc \in {"idle", "retry_sleep"}) =>
                  heap[caller[t].job].idx = heap[caller[t].job].total]_vars

\* C24 witness: a job of more than one block is complete, its record buffer
\* holds the signal frames, and its caller has not been woken yet.
C24_Witness ==
    \E t \in Callers :
        /\ caller[t].pc = "wait"
        /\ caller[t].job # NoJob
        /\ heap[caller[t].job].done
        /\ heap[caller[t].job].idx = heap[caller[t].job].total
        /\ heap[caller[t].job].total > FramesPerBuffer
        /\ \E i \in 1 .. heap[caller[t].job].total :
              heap[caller[t].job].rec[i] # 0

\* C28 (as claimed): a job leaves the slot only when the callback clears the
\* slot after finishing that very job, or when the caller that armed it
\* clears the slot after its timeout.
C28_ClearedByOwnerOnly ==
    [][(job # NoJob /\ job' # job) =>
          \/ cb.pc = "clear" /\ cb'.pc = "idle" /\ cb.job = job
          \/ \E t \in Callers :
                /\ caller[t].pc = "to_cs"
                /\ caller'[t].pc = "idle"
                /\ caller[t].job = job]_vars

\* C29 (as claimed): a call of the single caller thread never ends with the
\* busy error.
C29_SoloNeverBusy ==
    \A t \in Callers : caller[t].result # "Busy"

RangingWindow(a, echoes) ==
    LET ref_offset == ChirpLen(a) - 1
        corr == CorrFull(Reversed(ChirpRef(a)),
                         Recording(TotalFrames(a, a.cfg), echoes))
    IN PySlice(corr, StartIdx(a, ref_offset),
               EndIdx(a, ref_offset, Len(corr)))

\* The index in the window of the peak the call selected.
SelectedInWindow(out) ==
    out.lag_samples + (ChirpLen(out.args) - 1)
        - StartIdx(out.args, ChirpLen(out.args) - 1)

Outlier10x(arr, k) ==
    /\ Len(arr) >= 3
    /\ \A i \in 1 .. Len(arr) :
          i # k => FLeq(FMul(FromInt(10), arr[i]), arr[k])

\* The values of a sequence.
Range(s) == {s[i] : i \in 1 .. Len(s)}

\* C23 (as claimed): a kept sample that is at least ten times every other
\* kept sample is not among the used samples, and the reported median
\* differs from the raw median.
C23_OutlierExcluded ==
    lat.out.kind = "aggregated" =>
        LET res == lat.out.res
            arr == res.latencies_seconds
        IN \A k \in 1 .. Len(arr) :
              Outlier10x(arr, k) =>
                 /\ arr[k] \notin Range(res.latencies_used_seconds)
                 /\ res.latency_seconds # res.latency_raw_median_seconds

\* C27 (as claimed): the used samples are exactly the kept samples within
\* 3.5 x MAD of the raw median, in their order; the final latency is their
\* median; and the raw list is returned as it was kept.
C27_OutliersExcluded ==
    lat.out.kind = "aggregated" =>
        LET res == lat.out.res
            arr == res.latencies_seconds
            raw == Median(arr)
            mad == Median(AbsDev(arr, raw))
        IN /\ res.latencies_used_seconds =
                 SelectSeq(arr, LAMBDA x :
                     ~FLess(FMul(Frac(35, 10), mad), FAbs(FSub(x, raw))))
           /\ res.latency_seconds = Median(res.latencies_used_seconds)
           /\ arr \in KeptInputs

\* C30: the used samples are at least one and at least half of the kept
\* samples, each of them a kept sample; the final latency is their median;
\* with a MAD of 0 the used samples are the kept samples.
C30_InliersAtLeastHalf ==
    lat.out.kind = "aggregated" =>
        LET res == lat.out.res
            arr == res.latencies_seconds
            used == res.latencies_used_seconds
        IN /\ Len(used) >= 1
           /\ 2 * Len(used) >= Len(arr)
           /\ Range(used) \subseteq Range(arr)
           /\ res.latency_seconds = Median(used)
           /\ res.latency_seconds \in Seq(Int)
           /\ res.latency_seconds[2] > 0
           /\ res.latency_mad_seconds = FZero => used = arr

\* C30 witness: three kept samples are equal and the fourth is not: the MAD is
\* 0 and all four are used.
C30_Witness ==
    /\ lat.out.kind = "aggregated"
    /\ lat.out.res.latency_mad_seconds = FZero
    /\ Len(lat.out.res.latencies_used_seconds) = 4
    /\ \E i, j \in 1 .. 4 :
          lat.out.res.latencies_seconds[i] # lat.out.res.latencies_seconds[j]

\* The calibration window of a picked recording: corr[start_idx:end_idx].
PickWindow(in) ==
    LET corr == CorrFull(in.chirp_ref, in.recorded)
        ref_offset == Len(in.chirp_ref) - 1
    IN PySlice(corr, PickStartIdx(ref_offset, in.sample_rate),
               PickEndIdx(ref_offset, in.sample_rate, Len(corr)))

\* C26: with a non-empty window the selected index is inside the window and
\* is that of the lowest-index extracted peak with an amplitude at least the
\* noise floor (median + 8 x MAD of the window) and at least 0.5% of the
\* strongest extracted peak; if there is none, that of the lowest-index
\* extracted peak at or above the noise floor; if there is none, that of the
\* first maximum of the window.
C26_EarliestStrongPeak ==
    lat.out.kind = "picked" =>
        \A w \in {PickWindow(lat.out.in)} :
            Len(w.items) > 0 =>
            \A peaks \in {FindPeaks(w.items, PickNumPeaks,
                                    PickMinDistance).peaks},
               floor \in {NoiseFloor(w.items)} :
                LET sel == lat.out.res.best_peak_idx - w.first
                    K == 1 .. Len(peaks)
                    above == {k \in K : ~FLess(FromInt(peaks[k][2]), floor)}
                    strong == {k \in above : \A j \in K :
                                  1000 * peaks[k][2] >= 5 * peaks[j][2]}
                    lowest(S) == CHOOSE k \in S :
                                    \A j \in S : peaks[k][1] <= peaks[j][1]
                IN /\ sel >= 0
                   /\ sel < Len(w.items)
                   /\ w.first = PickStartIdx(Len(lat.out.in.chirp_ref) - 1,
                                             lat.out.in.sample_rate)
                   /\ IF strong # {} THEN sel = peaks[lowest(strong)][1]
                      ELSE IF above # {} THEN sel = peaks[lowest(above)][1]
                      ELSE sel = ArgMax(w.items)

\* C26 witness: an early echo of amplitude 1 is selected although a later
\* echo of amplitude 10 is the strongest peak of the window.
C26_Witness ==
    /\ lat.out.kind = "picked"
    /\ Len(lat.out.in.recorded) = 40
    /\ lat.out.in.sample_rate = 6000
    /\ lat.out.in.recorded[14] = 1
    /\ lat.out.in.recorded[28] = 10
    /\ lat.out.in.recorded[33] = 0
    /\ lat.out.in.recorded[2] = 0
    /\ lat.out.res.best_peak_idx = 12
    /\ lat.out.res.lag_samples = 10

\* The latencies the log records for the cycles of index d and more; cycle i
\* is the entry i + 2 of the log.
LatenciesFrom(log, d) ==
    [k \in 1 .. (Len(log) - 1 - d) |-> log[k + 1 + d].latency]

\* C22: measure_latency first makes one silent warm-up call of
\* frames_per_buffer zeros with no extra recording, goes on to the cycles
\* however the warm-up ended, and makes the cycles one after the other, each
\* a play and record of the chirp with 0.1 s more; a call that returns has
\* made exactly `repeats` cycles and returns the latencies of exactly the
\* cycles of index >= discard, where a discard >= repeats counts as
\* repeats - 1, so that at least one latency is returned; with repeats < 1
\* or discard < 0 the call raises ValueError with no play and record made
\* and the global stream as it was.
C22_CalibrationProtocol ==
    /\ [](LET a == lat.args
              log == lat.log
              d == IF a.discard >= a.repeats THEN a.repeats - 1
                   ELSE a.discard
          IN a # NoCfg =>
             /\ (a.repeats < 1 \/ a.discard < 0)
                    <=> lat.out.kind = "ValueError"
             /\ lat.out.kind = "ValueError" => log = <<>> /\ lat.pc = "idle"
             /\ \A k \in 1 .. Len(log) :
                    IF k = 1
                    THEN /\ log[k].signal = "silence"
                         /\ log[k].frames = FramesPerBuffer
                         /\ log[k].extra = FZero
                    ELSE /\ log[k].signal = "chirp"
                         /\ log[k].frames = ChirpLen(a)
                         /\ log[k].extra = Frac(1, 10)
             /\ \A k \in 2 .. (Len(log) - 1) : log[k].outcome = "recorded"
             /\ lat.pc = "warmup" => log = <<>>
             /\ lat.pc = "cycle" =>
                    /\ Len(log) = 1 + lat.i
                    /\ lat.i < a.repeats
                    /\ lat.i > 0 => log[Len(log)].outcome = "recorded"
             /\ lat.pc = "idle" /\ lat.out.kind # "ValueError" =>
                    /\ Len(log) >= 2
                    /\ lat.out.kind \in {"result", "TimeoutError",
                                         "RuntimeError"}
             /\ lat.out.kind \in {"TimeoutError", "RuntimeError"} =>
                    /\ Len(log) <= 1 + a.repeats
                    /\ log[Len(log)].outcome = lat.out.kind
             /\ lat.out.kind = "result" =>
                    /\ Len(log) = 1 + a.repeats
                    /\ log[Len(log)].outcome = "recorded"
                    /\ lat.out.res.latencies_seconds = LatenciesFrom(log, d)
                    /\ Len(lat.out.res.latencies_seconds) = a.repeats - d
                    /\ Len(lat.out.res.latencies_seconds) >= 1)
    /\ [][/\ lat'.out.kind = "ValueError" => g' = g /\ UNCHANGED streamVars
          /\ lat.pc # "idle" =>
                /\ lat'.args = lat.args
                /\ Len(lat'.log) = Len(lat.log) + 1
                /\ SubSeq(lat'.log, 1, Len(lat.log)) = lat.log]_vars

\* C22 witness: a calibration with repeats = 3 and discard = 4 whose warm-up
\* timed out has returned; the latency of the last cycle alone is kept, and
\* it differs from that of the cycle before.
C22_Witness ==
    /\ lat.out.kind = "result"
    /\ lat.args.repeats = 3
    /\ lat.args.discard = 4
    /\ lat.log[1].outcome = "TimeoutError"
    /\ Len(lat.out.res.latencies_seconds) = 1
    /\ lat.log[3].latency # lat.log[4].latency

=============================================================================
